---- MODULE Spec2Model ----
(***************************************************************************)
(* A model of neuropythy/registration/__init__.py: the potential-field     *)
(* compiler (_parse_field_arguments and its helpers) and the anchor        *)
(* builder (retinotopy_anchors).                                           *)
(*                                                                         *)
(* Numbers are fixed-point hundredths: 1.0 is 100, 0.05 is 5, pi is 314.   *)
(* A Python string is the sequence of its characters, so that str.lower()  *)
(* is computed and not assumed.                                            *)
(***************************************************************************)
EXTENDS Integers, Sequences, FiniteSets, TLC

VARIABLES
    arg,        \* the `arg` parameter of _parse_field_arguments
    fc,         \* the running call of _parse_field_arguments and the engine it drives
    mesh,       \* the mesh handed to retinotopy_anchors
    call,       \* the arguments of retinotopy_anchors read so far
    ra,         \* the running call of retinotopy_anchors (its locals and position)
    topo,       \* two JavaTopology objects and the running call of one of their methods
    cache,      \* __loaded_V123_models, the model files, and the running call of V123_model
    mr,         \* the running call of mesh_register
    rr          \* the running call of register_retinotopy or of its preparation

vars == <<arg, fc, mesh, call, ra, topo, cache, mr, rr>>

(***************************************************************************)
(* Bounds of the model.                                                    *)
(***************************************************************************)
MaxDescriptors == 2
MaxArgs == 3
NumVertices == 2

(***************************************************************************)
(* Python values.                                                          *)
(***************************************************************************)
None == [t |-> "none", s |-> <<>>, n |-> 0, a |-> <<>>, p |-> <<>>, j |-> FALSE]
Str(chars) == [t |-> "str", s |-> chars, n |-> 0, a |-> <<>>, p |-> <<>>, j |-> FALSE]
Num(x) == [t |-> "num", s |-> <<>>, n |-> x, a |-> <<>>, p |-> <<>>, j |-> FALSE]
Arr(xs) == [t |-> "arr", s |-> <<>>, n |-> 0, a |-> xs, p |-> <<>>, j |-> FALSE]
Pts(ps) == [t |-> "pts", s |-> <<>>, n |-> 0, a |-> <<>>, p |-> ps, j |-> FALSE]
Faces == [t |-> "faces", s |-> <<>>, n |-> 0, a |-> <<>>, p |-> <<>>, j |-> TRUE]
Coords == [t |-> "coords", s |-> <<>>, n |-> 0, a |-> <<>>, p |-> <<>>, j |-> TRUE]

\* neuropythy.java.to_java_array: the value as an engine-side array
ToJavaArray(v) == [v EXCEPT !.j = TRUE]

UpperCase == <<"A","B","C","D","E","F","G","H","I","J","K","L","M",
               "N","O","P","Q","R","S","T","U","V","W","X","Y","Z">>
LowerCase == <<"a","b","c","d","e","f","g","h","i","j","k","l","m",
               "n","o","p","q","r","s","t","u","v","w","x","y","z">>

\* str.lower() on one character
LowerChar(c) ==
    IF \E i \in 1..26 : UpperCase[i] = c
    THEN LowerCase[CHOOSE i \in 1..26 : UpperCase[i] = c]
    ELSE c

\* str.lower()
Lower(chars) == [i \in 1..Len(chars) |-> LowerChar(chars[i])]

(***************************************************************************)
(* The strings of the program.                                             *)
(***************************************************************************)
s_mesh == <<"m","e","s","h">>
s_edge == <<"e","d","g","e">>
s_angle == <<"a","n","g","l","e">>
s_anchor == <<"a","n","c","h","o","r">>
s_perimeter == <<"p","e","r","i","m","e","t","e","r">>
s_harmonic == <<"h","a","r","m","o","n","i","c">>
s_lennard_jones == <<"l","e","n","n","a","r","d","-","j","o","n","e","s">>
s_infinite_well == <<"i","n","f","i","n","i","t","e","-","w","e","l","l">>
s_gaussian == <<"g","a","u","s","s","i","a","n">>
s_Gaussian == <<"G","a","u","s","s","i","a","n">>
s_scale == <<"s","c","a","l","e">>
s_Scale == <<"S","c","a","l","e">>
s_SCALE == <<"S","C","A","L","E">>
s_order == <<"o","r","d","e","r">>
s_shape == <<"s","h","a","p","e">>
s_sigma == <<"s","i","g","m","a">>
s_min == <<"m","i","n">>
s_max == <<"m","a","x">>
s_edge_scale == <<"e","d","g","e","_","s","c","a","l","e">>
s_angle_scale == <<"a","n","g","l","e","_","s","c","a","l","e">>
s_spring == <<"s","p","r","i","n","g">>

(***************************************************************************)
(* _parse_field_data_types: per type, either one schema or a schema per    *)
(* shape.  A schema is the engine constructor and its parameter slots.     *)
(***************************************************************************)
SlotF == [k |-> "F", name |-> <<>>, dflt |-> 0, i |-> 0]
SlotX == [k |-> "X", name |-> <<>>, dflt |-> 0, i |-> 0]
SlotPos(i) == [k |-> "pos", name |-> <<>>, dflt |-> 0, i |-> i]
SlotNamed(name, dflt) == [k |-> "named", name |-> name, dflt |-> dflt, i |-> 0]

Schema(method, slots) == [method |-> method, slots |-> slots]

ParseFieldDataTypes ==
    {
    [type |-> s_mesh, isdict |-> FALSE, shape |-> <<>>,
     data |-> Schema("newStandardMeshPotential",
        <<SlotNamed(s_edge_scale, 100), SlotNamed(s_angle_scale, 100), SlotF, SlotX>>)],
    [type |-> s_edge, isdict |-> TRUE, shape |-> s_harmonic,
     data |-> Schema("newHarmonicEdgePotential",
        <<SlotNamed(s_scale, 100), SlotNamed(s_order, 200), SlotF, SlotX>>)],
    [type |-> s_edge, isdict |-> TRUE, shape |-> s_lennard_jones,
     data |-> Schema("newLJEdgePotential",
        <<SlotNamed(s_scale, 100), SlotNamed(s_order, 200), SlotF, SlotX>>)],
    [type |-> s_angle, isdict |-> TRUE, shape |-> s_harmonic,
     data |-> Schema("newHarmonicAnglePotential",
        <<SlotNamed(s_scale, 100), SlotNamed(s_order, 200), SlotF, SlotX>>)],
    [type |-> s_angle, isdict |-> TRUE, shape |-> s_lennard_jones,
     data |-> Schema("newLJAnglePotential",
        <<SlotNamed(s_scale, 100), SlotNamed(s_order, 200), SlotF, SlotX>>)],
    [type |-> s_angle, isdict |-> TRUE, shape |-> s_infinite_well,
     data |-> Schema("newWellAnglePotential",
        <<SlotNamed(s_scale, 100), SlotNamed(s_order, 200),
          SlotNamed(s_min, 0), SlotNamed(s_max, 314), SlotF, SlotX>>)],
    [type |-> s_anchor, isdict |-> TRUE, shape |-> s_harmonic,
     data |-> Schema("newHarmonicAnchorPotential",
        <<SlotNamed(s_scale, 100), SlotNamed(s_shape, 200),
          SlotPos(0), SlotPos(1), SlotX>>)],
    [type |-> s_anchor, isdict |-> TRUE, shape |-> s_gaussian,
     data |-> Schema("newGaussianAnchorPotential",
        <<SlotNamed(s_scale, 100), SlotNamed(s_shape, 200), SlotNamed(s_sigma, 200),
          SlotPos(0), SlotPos(1), SlotX>>)],
    [type |-> s_perimeter, isdict |-> TRUE, shape |-> s_harmonic,
     data |-> Schema("newHarmonicPerimeterPotential",
        <<SlotNamed(s_scale, 100), SlotNamed(s_shape, 200), SlotF, SlotX>>)]
    }

(***************************************************************************)
(* Outcomes of a function: a value, or the exception it raised.            *)
(***************************************************************************)
Returned(v) == [ok |-> TRUE, val |-> v, err |-> ""]
Raised(e) == [ok |-> FALSE, val |-> None, err |-> e]

Min(S) == CHOOSE x \in S : \A y \in S : x <= y

\* the parts of the program that a specification leaves at rest
NoOp ==
    [kind |-> "", name |-> "", pc |-> "idle", err |-> "", result |-> <<>>,
     before |-> <<>>, key |-> "", calls |-> 0, data |-> <<>>, fill |-> None]
TopoIdle == [self |-> <<>>, from |-> <<>>, written |-> <<>>, op |-> NoOp]
CacheIdle == [loaded |-> <<>>, files |-> <<>>, made |-> 0, op |-> NoOp]
MrIdle ==
    [pc |-> "idle", err |-> "", at |-> "", mesh |-> FALSE, max_steps |-> None,
     max_step_size |-> None, max_pe_change |-> None, k |-> None,
     minimizer |-> 0, steps |-> <<>>, returned |-> FALSE]
NoHemisphere == [chirality |-> "", found |-> {}]
RrIdle == [pc |-> "idle", entry |-> "", err |-> "", at |-> 0, hemi |-> NoHemisphere,
           forms |-> <<>>, registration_name |-> "", ang |-> <<>>, ecc |-> <<>>,
           wgt |-> <<>>, weighted |-> FALSE, template |-> <<>>, msym |-> <<>>,
           stages |-> <<>>, minimizer |-> 0, before |-> <<>>]
AtRest == topo = TopoIdle /\ cache = CacheIdle /\ mr = MrIdle /\ rr = RrIdle

\* the scan with the two .lower() calls of line 57 left out
NameMatchesCaseSensitive(argname, args) ==
    {i \in 1..Len(args) : args[i].t = "str" /\ args[i].s = argname}

\* the positions the scan of _parse_field_function_argument stops at
NameMatches(argname, args) ==
    {i \in 1..Len(args) : args[i].t = "str" /\ Lower(args[i].s) = Lower(argname)}

\* _parse_field_function_argument(argdat, args, faces, coords)
ParseFieldFunctionArgument(argdat, args) ==
    IF argdat.k = "F" THEN Returned(Faces)
    ELSE IF argdat.k = "X" THEN Returned(Coords)
    ELSE IF argdat.k = "pos"
    THEN IF argdat.i + 1 <= Len(args)
         THEN Returned(ToJavaArray(args[argdat.i + 1]))
         ELSE Raised("IndexError")
    ELSE LET found == NameMatches(argdat.name, args)
         IN  IF found = {} THEN Returned(Num(argdat.dflt))
             ELSE LET i == Min(found)
                  IN  IF i + 1 > Len(args) THEN Raised("IndexError")
                      ELSE IF args[i + 1].t = "num" THEN Returned(args[i + 1])
                      ELSE Returned(ToJavaArray(args[i + 1]))

\* the list comprehension of line 87: every slot resolved, in order
JavaArgs(slots, args) ==
    [i \in 1..Len(slots) |-> ParseFieldFunctionArgument(slots[i], args)]

\* An instruction: a string, a list/tuple of values, or some other object.
InstString(chars) == [kind |-> "str", s |-> chars, items |-> <<>>]
InstList(items) == [kind |-> "list", s |-> <<>>, items |-> items]
InstOther == [kind |-> "other", s |-> <<>>, items |-> <<>>]

NoCall == [method |-> "", args |-> <<>>]

\* _parse_field_argument(instruct, faces, coords), up to the constructor call:
\* the outcome, and the engine constructor call it is about to make
ParseFieldArgument(instruct) ==
    IF instruct.kind = "other" THEN [ok |-> FALSE, err |-> "RuntimeError", call |-> NoCall]
    ELSE IF instruct.kind = "list" /\ instruct.items = <<>>
    THEN [ok |-> FALSE, err |-> "IndexError", call |-> NoCall]
    ELSE LET insttype0 == IF instruct.kind = "str" THEN Str(instruct.s)
                          ELSE instruct.items[1]
             instargs0 == IF instruct.kind = "str" THEN <<>> ELSE Tail(instruct.items)
         IN
         IF insttype0.t # "str" THEN [ok |-> FALSE, err |-> "AttributeError", call |-> NoCall]
         ELSE LET insttype == Lower(insttype0.s)
                  ofType == {e \in ParseFieldDataTypes : e.type = insttype}
              IN
              IF ofType = {} THEN [ok |-> FALSE, err |-> "RuntimeError", call |-> NoCall]
              ELSE LET isdict == \E e \in ofType : e.isdict IN
                   IF isdict /\ instargs0 = <<>>
                   THEN [ok |-> FALSE, err |-> "IndexError", call |-> NoCall]
                   ELSE IF isdict /\ instargs0[1].t # "str"
                   THEN [ok |-> FALSE, err |-> "AttributeError", call |-> NoCall]
                   ELSE LET shape_name == IF isdict THEN Lower(instargs0[1].s) ELSE <<>>
                            instargs == IF isdict THEN Tail(instargs0) ELSE instargs0
                            ofShape == {e \in ofType : e.shape = shape_name}
                        IN
                        IF ofShape = {}
                        THEN [ok |-> FALSE, err |-> "RuntimeError", call |-> NoCall]
                        ELSE LET instdata == (CHOOSE e \in ofShape : TRUE).data
                                 java_args == JavaArgs(instdata.slots, instargs)
                             IN
                             IF \E i \in 1..Len(java_args) : ~java_args[i].ok
                             THEN [ok |-> FALSE,
                                   err |-> java_args[Min({i \in 1..Len(java_args) :
                                                           ~java_args[i].ok})].err,
                                   call |-> NoCall]
                             ELSE [ok |-> TRUE, err |-> "",
                                   call |-> [method |-> instdata.method,
                                             args |-> [i \in 1..Len(java_args) |->
                                                          java_args[i].val]]]

(***************************************************************************)
(* _parse_field_arguments, and the engine it drives.  terms is the record  *)
(* of the term constructors the engine has run, sums the number of         *)
(* sum-combinators made by Fields.newSum, sumFields the addField calls on  *)
(* the combinator, in order.                                               *)
(***************************************************************************)
NoHandle == [h |-> "none", id |-> 0]
TermHandle(i) == [h |-> "term", id |-> i]
SumHandle(i) == [h |-> "sum", id |-> i]

FcIdle ==
    [pc |-> "idle", pot |-> <<>>, terms |-> <<>>, sums |-> 0, sumFields |-> <<>>,
     result |-> NoHandle, err |-> ""]

FcCalled == [FcIdle EXCEPT !.pc = "call"]

ArgList(items) == [islist |-> TRUE, items |-> items]
ArgNotList(items) == [islist |-> FALSE, items |-> items]

\* lines 94-95: the argument must be a list
FcEnter(a, f) ==
    IF ~a.islist THEN [f EXCEPT !.pc = "raised", !.err = "RuntimeError"]
    ELSE [f EXCEPT !.pc = "parse"]

\* line 96, one element of the comprehension: _parse_field_argument on the next
\* instruction, whose last statement (line 89) runs the engine constructor
FcParseNext(a, f) ==
    LET r == ParseFieldArgument(a.items[Len(f.pot) + 1])
    IN  IF r.ok
        THEN [f EXCEPT !.terms = Append(f.terms, r.call),
                       !.pot = Append(f.pot, TermHandle(Len(f.terms) + 1))]
        ELSE [f EXCEPT !.pc = "raised", !.err = r.err]

\* line 98 with the comparison off by one
ReturnsUnsummedOnlyEmpty(pot) == Len(pot) < 1

\* line 98: is the list of potentials returned as it is, not summed?
ReturnsUnsummed(pot) == Len(pot) <= 1

\* lines 101-102: the order of the addField calls
AddFieldOrder(pot) == pot

\* lines 97-103
FcReturn(f) ==
    IF ReturnsUnsummed(f.pot)
    THEN IF f.pot = <<>> THEN [f EXCEPT !.pc = "raised", !.err = "IndexError"]
         ELSE [f EXCEPT !.pc = "done", !.result = f.pot[1]]
    ELSE [f EXCEPT !.pc = "done", !.sums = f.sums + 1,
                   !.sumFields = AddFieldOrder(f.pot),
                   !.result = SumHandle(f.sums + 1)]

FcStep(a, f) ==
    IF f.pc = "call" THEN FcEnter(a, f)
    ELSE IF Len(f.pot) < Len(a.items) THEN FcParseNext(a, f)
    ELSE FcReturn(f)

RECURSIVE FcRun(_, _)
\* _parse_field_arguments(arg, faces, coords), run to its return or raise
FcRun(a, f) == IF f.pc \in {"done", "raised"} THEN f ELSE FcRun(a, FcStep(a, f))

ParseFieldArgumentsEnter ==
    /\ fc.pc = "call"
    /\ fc' = FcEnter(arg, fc)
    /\ UNCHANGED <<arg, mesh, call, ra, topo, cache, mr, rr>>

ParseFieldArgumentNext ==
    /\ fc.pc = "parse"
    /\ Len(fc.pot) < Len(arg.items)
    /\ fc' = FcParseNext(arg, fc)
    /\ UNCHANGED <<arg, mesh, call, ra, topo, cache, mr, rr>>

ParseFieldArgumentsReturn ==
    /\ fc.pc = "parse"
    /\ Len(fc.pot) = Len(arg.items)
    /\ fc' = FcReturn(fc)
    /\ UNCHANGED <<arg, mesh, call, ra, topo, cache, mr, rr>>

(***************************************************************************)
(* The mesh, the retinotopy model and the arguments of retinotopy_anchors. *)
(* Vertex indices are those of Python, 0..n-1; element i of a Python       *)
(* sequence is element i+1 of the sequence that models it.                 *)
(***************************************************************************)
Pt(x, y) == [x |-> x, y |-> y, k |-> "pt"]
\* a candidate whose coordinates are None (line 360 tests a[0])
NonePt == [x |-> 0, y |-> 0, k |-> "nonept"]
\* None in the place of a candidate (line 376 tests r0[0])
NoneElem == [x |-> 0, y |-> 0, k |-> "none"]

\* a per-vertex container: kind is ndarray, list, dict, str, num or none
Container(kind, v) == [kind |-> kind, v |-> v]
NoneArg == Container("none", <<>>)

s_polar_angle == <<"p","o","l","a","r","_","a","n","g","l","e">>
s_eccentricity == <<"e","c","c","e","n","t","r","i","c","i","t","y">>
s_weight == <<"w","e","i","g","h","t">>

FieldName(f) ==
    IF f = "pa" THEN s_polar_angle ELSE IF f = "ecc" THEN s_eccentricity ELSE s_weight

\* what one vertex may carry: polar angle, eccentricity and weight, each a
\* number or None
VertexData ==
    {
    [pa |-> None, ecc |-> Num(200), w |-> Num(10)],
    [pa |-> Num(9000), ecc |-> None, w |-> Num(10)],
    [pa |-> Num(9000), ecc |-> Num(200), w |-> None],
    [pa |-> Num(9000), ecc |-> Num(200), w |-> Num(0)],
    [pa |-> Num(9000), ecc |-> Num(200), w |-> Num(10)]
    }

\* mesh.coordinates.T: the position of vertex i
VertexPosition(i) == Pt(90 * i, 0)

Meshes ==
    {[n |-> NumVertices,
      X |-> [i \in 1..NumVertices |-> VertexPosition(i - 1)],
      edge_lengths |-> <<10, 30>>,
      data |-> d,
      hasdata |-> h] : d \in [1..NumVertices -> VertexData], h \in BOOLEAN}

Column(m, f) == [i \in 1..m.n |-> m.data[i][f]]

\* the data of field f as a dictionary: the vertices with a value are its keys
AsDict(m, f) ==
    [i \in {i \in 1..m.n : m.data[i][f].t # "none"} |-> m.data[i][f]]

\* the value passed for field f, in one of the forms the function accepts
ArgOfForm(m, f, form) ==
    IF form = "ndarray" THEN Container("ndarray", Column(m, f))
    ELSE IF form = "list" THEN Container("list", Column(m, f))
    ELSE IF form = "dict" THEN Container("dict", AsDict(m, f))
    ELSE IF form = "name" THEN Container("str", [i \in 1..Len(FieldName(f)) |->
                                                    Str(<<FieldName(f)[i]>>)])
    ELSE IF form = "one" THEN Container("num", <<Num(100)>>)
    ELSE NoneArg

\* neuropythy.cortex.empirical_retinotopy_data(mesh, kind): the mesh's data of
\* that kind as a per-vertex array, or None when the mesh has none
EmpiricalRetinotopyData(m, f) ==
    IF m.hasdata THEN Container("ndarray", Column(m, f)) ELSE NoneArg

\* lines 325-328, 336-338, 345-347: a dictionary becomes a list
DictToList(c, n) ==
    IF c.kind = "dict"
    THEN Container("list", [i \in 1..n |-> IF i \in DOMAIN c.v THEN c.v[i] ELSE None])
    ELSE c

\* lines 321-330 and 332-340: polar_angle and eccentricity
ResolveAngle(m, given, f) ==
    LET a0 == IF given.kind # "none" THEN given ELSE EmpiricalRetinotopyData(m, f)
        a1 == DictToList(a0, m.n)
    IN  IF a0.kind = "none" THEN Raised("RuntimeError")
        ELSE IF Len(a1.v) # m.n THEN Raised("RuntimeError")
        ELSE Returned(a1)

\* lines 342-351: weight
ResolveWeight(m, given) ==
    LET a0 == IF given.kind # "none" THEN given ELSE EmpiricalRetinotopyData(m, "w")
        a1 == IF a0.kind = "none" THEN Container("num", <<Num(100)>>) ELSE a0
        a2 == DictToList(a1, m.n)
        a3 == IF a2.kind = "num"
              THEN Container("list", [i \in 1..m.n |-> a2.v[1]])
              ELSE a2
    IN  IF Len(a3.v) # m.n THEN Raised("RuntimeError") ELSE Returned(a3)

RECURSIVE SumSeq(_)
SumSeq(xs) == IF xs = <<>> THEN 0 ELSE Head(xs) + SumSeq(Tail(xs))

\* np.mean
Mean(xs) == SumSeq(xs) \div Len(xs)

\* the select argument: 'close', ['close'], ['close', d], ['close', [k]], None
\* or a function
SelectString == [form |-> "str", second |-> "none", x |-> 0, fn |-> ""]
SelectList1 == [form |-> "list1", second |-> "none", x |-> 0, fn |-> ""]
SelectDistance(d) == [form |-> "list2", second |-> "num", x |-> d, fn |-> ""]
SelectMultiple(k) == [form |-> "list2", second |-> "list", x |-> k, fn |-> ""]
SelectNone == [form |-> "none", second |-> "none", x |-> 0, fn |-> ""]
SelectFunction(fn) == [form |-> "func", second |-> "none", x |-> 0, fn |-> fn]

\* the multiple of the mean edge length that 'close' stands for (line 353)
CloseDefaultMultiple == 20

\* lines 353-360: the selection function the argument stands for
SelectFunctionOf(sel, m) ==
    LET sel1 == IF sel.form \in {"str", "list1"}
                THEN SelectMultiple(CloseDefaultMultiple) ELSE sel
    IN  IF sel1.form = "none" THEN [fn |-> "identity", d |-> 0]
        ELSE IF sel1.form = "list2"
        THEN [fn |-> "close",
              d |-> IF sel1.second = "list" THEN Mean(m.edge_lengths) * sel1.x
                    ELSE sel1.x]
        ELSE [fn |-> sel1.fn, d |-> 0]

RECURSIVE ISqrtFrom(_, _, _)
\* the integer square root of s, known to lie in lo..hi
ISqrtFrom(s, lo, hi) ==
    IF lo >= hi THEN lo
    ELSE LET mid == (lo + hi + 1) \div 2
         IN  IF mid * mid <= s THEN ISqrtFrom(s, mid, hi) ELSE ISqrtFrom(s, lo, mid - 1)

\* numpy.linalg.norm of the difference of two points, rounded down to the
\* hundredth
Norm(p, q) ==
    LET dx == IF p.x >= q.x THEN p.x - q.x ELSE q.x - p.x
        dy == IF p.y >= q.y THEN p.y - q.y ELSE q.y - p.y
    IN  ISqrtFrom(dx * dx + dy * dy, 0, dx + dy)

RECURSIVE SelectSeq2OrAt(_, _, _)
\* the comprehension with a candidate at the threshold kept
SelectSeq2OrAt(ancs, x, d) ==
    IF ancs = <<>> THEN <<>>
    ELSE LET a == Head(ancs)
             rest == SelectSeq2OrAt(Tail(ancs), x, d)
         IN  IF a.k # "nonept" /\ Norm(x, a) <= d THEN <<a>> \o rest ELSE rest

RECURSIVE SelectSeq2(_, _, _)
\* the comprehension of line 360 over the candidates of one vertex
SelectSeq2(ancs, x, d) ==
    IF ancs = <<>> THEN <<>>
    ELSE LET a == Head(ancs)
             rest == SelectSeq2(Tail(ancs), x, d)
         IN  IF a.k # "nonept" /\ Norm(x, a) < d THEN <<a>> \o rest ELSE rest

\* select(idx, ancs): the function made by lines 356-360, or the caller's own,
\* here one that keeps no candidate
ApplySelect(f, m, idx, ancs) ==
    IF f.fn = "identity" THEN ancs
    ELSE IF f.fn = "close" THEN SelectSeq2(ancs, m.X[idx + 1], f.d)
    ELSE <<>>

(***************************************************************************)
(* retinotopy_anchors, from line 318 on.                                   *)
(***************************************************************************)
NoSelect == [fn |-> "", d |-> 0]

RaIdle ==
    [pc |-> "idle", err |-> "", at |-> "",
     polar_angle |-> NoneArg, eccentricity |-> NoneArg, weight |-> NoneArg,
     select |-> NoSelect, idcs |-> <<>>, filtered |-> <<>>, res |-> <<>>,
     data |-> <<>>, ancs |-> <<>>, wgts |-> <<>>, sigs |-> None,
     result |-> InstOther]

RaCalled == [RaIdle EXCEPT !.pc = "resolve"]

\* an exception leaves the function; at keeps the step that raised it
RaRaise(r, e) == [r EXCEPT !.pc = "raised", !.err = e, !.at = r.pc]

\* lines 318-360: the sources of the three fields and the selection function
RaResolve(m, c, r) ==
    LET pa == ResolveAngle(m, c.polar_angle, "pa")
        ecc == ResolveAngle(m, c.eccentricity, "ecc")
        w == ResolveWeight(m, c.weight)
    IN  IF ~pa.ok THEN RaRaise(r, pa.err)
        ELSE IF ~ecc.ok THEN RaRaise(r, ecc.err)
        ELSE IF ~w.ok THEN RaRaise(r, w.err)
        ELSE [r EXCEPT !.pc = "filter",
                       !.polar_angle = pa.val, !.eccentricity = ecc.val,
                       !.weight = w.val, !.select = SelectFunctionOf(c.select, m)]

\* the test with a weight equal to the cutoff turned away
WeightPassesAbove(w, cutoff) ==
    /\ w.t # "none"
    /\ IF cutoff.t = "none" THEN w.t # "num" \/ w.n # 0
       ELSE w.t # "num" \/ w.n > cutoff.n

\* lines 366 and 371: the test on the weight of one vertex.  A string compares
\* above every number.
WeightPasses(w, cutoff) ==
    /\ w.t # "none"
    /\ IF cutoff.t = "none" THEN w.t # "num" \/ w.n # 0
       ELSE w.t # "num" \/ w.n >= cutoff.n

\* lines 365-366 and 370-371: the test on one vertex
VertexPasses(r, cutoff, i) ==
    /\ r.polar_angle.v[i + 1].t # "none"
    /\ r.eccentricity.v[i + 1].t # "none"
    /\ WeightPasses(r.weight.v[i + 1], cutoff)

RECURSIVE FilterFrom(_, _, _, _)
\* lines 362-371: the indices, in range(n) order, of the vertices that pass
FilterFrom(r, cutoff, i, n) ==
    IF i >= n THEN <<>>
    ELSE (IF VertexPasses(r, cutoff, i) THEN <<i>> ELSE <<>>)
         \o FilterFrom(r, cutoff, i + 1, n)

RaFilter(m, c, r) ==
    LET idcs == FilterFrom(r, c.weight_cutoff, 0, m.n)
    IN  [r EXCEPT !.pc = "query", !.idcs = idcs, !.filtered = idcs]

\* x[idcs] for a list idcs: an ndarray is indexed by it, a list or a string is not
TakesListIndex(c) == c.kind = "ndarray"

P1 == Pt(490, 0)
P2 == Pt(510, 0)
P3 == Pt(400, 0)
P6 == Pt(0, 300)
P7 == Pt(496, 0)

\* what the model may answer for one vertex: no candidate, a list marked
\* invalid, or candidates
CandidateLists ==
    {<<>>, <<NoneElem>>, <<NonePt, P1>>, <<P3, P6>>, <<P1, P2>>, <<P1, P7, P3>>}

\* mdl.angle_to_cortex(polar_angle[idcs], eccentricity[idcs]): one candidate
\* list per retained vertex
AngleToCortex(idcs) == [1..Len(idcs) -> CandidateLists]

\* line 372
RaQuery(r, res) ==
    IF ~TakesListIndex(r.polar_angle) \/ ~TakesListIndex(r.eccentricity)
    THEN RaRaise(r, "TypeError")
    ELSE [r EXCEPT !.pc = "organize", !.res = res]

\* lines 376-378: does the vertex whose candidates are r0, selected to sel, get
\* an entry of data?
KeepsEntry(r0, sel) == r0[1].k # "none" /\ Len(sel) > 0

RECURSIVE OrganizeFrom(_, _, _)
\* lines 374-378, from the k-th retained vertex on
OrganizeFrom(m, r, k) ==
    IF k > Len(r.idcs) THEN <<>>
    ELSE LET i == r.idcs[k]
             r0 == r.res[k]
             sel == IF r0[1].k # "none" THEN ApplySelect(r.select, m, i, r0) ELSE <<>>
         IN  (IF KeepsEntry(r0, sel)
              THEN <<[iii |-> [j \in 1..Len(sel) |-> i], anchs |-> sel]>>
              ELSE <<>>)
             \o OrganizeFrom(m, r, k + 1)

\* lines 373-378: r0[0] of an empty candidate list raises IndexError
RaOrganize(m, r) ==
    IF \E k \in 1..Len(r.res) : r.res[k] = <<>>
    THEN RaRaise(r, "IndexError")
    ELSE [r EXCEPT !.pc = "flatten", !.data = OrganizeFrom(m, r, 1)]

RECURSIVE Flatten(_, _)
\* the comprehensions of lines 380 and 381
Flatten(data, field) ==
    IF data = <<>> THEN <<>> ELSE Head(data)[field] \o Flatten(Tail(data), field)

\* the weight taken without the scale
UnscaledWeight(w, scale) == w

\* line 383: one weight times the scale (None is 1)
ScaledWeight(w, scale) == IF scale.t = "none" THEN w ELSE (w * scale.n) \div 100

\* np.clip
Clip(x, lo, hi) ==
    LET up == IF x < lo THEN lo ELSE x IN IF up > hi THEN hi ELSE up

\* the sigma argument: None, a number, or a list
SigmaNone == [form |-> "none", v |-> <<>>]
SigmaNumber(x) == [form |-> "num", v |-> <<x>>]
SigmaList(xs) == [form |-> "list", v |-> xs]

\* line 390: the distances from the k-th anchor of a vertex to its other anchors
OtherDistances(anchs, k) ==
    {Norm(anchs[k], anchs[j]) : j \in (1..Len(anchs)) \ {k}}

\* the sigma taken from the farthest of the other anchors
RawSigmaFarthest(entry, k, mult, maxsig) ==
    IF Len(entry.iii) > 1
    THEN LET ds == OtherDistances(entry.anchs, k)
         IN  (mult * (CHOOSE x \in ds : \A y \in ds : y <= x)) \div 100
    ELSE maxsig

\* line 390: the sigma of the k-th anchor of one entry of data, before the clip
RawSigma(entry, k, mult, maxsig) ==
    IF Len(entry.iii) > 1
    THEN (mult * Min(OtherDistances(entry.anchs, k))) \div 100
    ELSE maxsig

RECURSIVE SigmasPerVertex(_, _, _)
\* one sigma for each vertex instead of one for each anchor
SigmasPerVertex(data, sigma, d) ==
    IF d > Len(data) THEN <<>>
    ELSE <<Clip(RawSigma(data[d], 1, sigma[2], sigma[3]), sigma[1], sigma[3])>>
         \o SigmasPerVertex(data, sigma, d + 1)

RECURSIVE SigmasFrom(_, _, _)
\* lines 389-393
SigmasFrom(data, sigma, d) ==
    IF d > Len(data) THEN <<>>
    ELSE [k \in 1..Len(data[d].anchs) |->
            Clip(RawSigma(data[d], k, sigma[2], sigma[3]), sigma[1], sigma[3])]
         \o SigmasFrom(data, sigma, d + 1)

\* line 390 subtracts two candidates: one with None coordinates cannot be
NormFails(data) ==
    \E d \in 1..Len(data) :
        /\ Len(data[d].iii) > 1
        /\ \E k \in 1..Len(data[d].anchs) : data[d].anchs[k].k # "pt"

\* lines 385-395
ComputeSigs(data, sigma) ==
    IF sigma.form = "none" THEN Returned(None)
    ELSE IF sigma.form = "num" THEN Returned(Num(sigma.v[1]))
    ELSE IF Len(sigma.v) = 3
    THEN IF NormFails(data) THEN Raised("TypeError")
         ELSE Returned(Arr(SigmasFrom(data, sigma.v, 1)))
    ELSE Raised("ValueError")

\* lines 398-400
AnchorDescriptor(shape, idcs, ancs, wgts, sigs, suffix) ==
    InstList(<<Str(s_anchor), Str(shape), Arr(idcs), Pts(ancs), Str(s_scale), Arr(wgts)>>
             \o (IF sigs.t = "none" THEN <<>> ELSE <<Str(s_sigma), sigs>>)
             \o suffix)

\* lines 379-400
RaFlatten(c, r) ==
    LET idcs == Flatten(r.data, "iii")
        ancs == Flatten(r.data, "anchs")
        wgts == [k \in 1..Len(idcs) |-> ScaledWeight(r.weight.v[idcs[k] + 1].n, c.scale)]
        sigs == ComputeSigs(r.data, c.sigma)
    IN  IF r.weight.kind = "str" THEN RaRaise(r, "IndexError")
        ELSE IF ~sigs.ok THEN RaRaise([r EXCEPT !.idcs = idcs, !.ancs = ancs, !.wgts = wgts],
                                      sigs.err)
        ELSE [r EXCEPT !.pc = "returned", !.idcs = idcs, !.ancs = ancs, !.wgts = wgts,
                       !.sigs = sigs.val,
                       !.result = AnchorDescriptor(c.shape, idcs, ancs, wgts, sigs.val,
                                                   c.suffix)]

ArraysGiven == [pa |-> "ndarray", ecc |-> "ndarray", w |-> "ndarray"]

\* the forms in which polar_angle, eccentricity and weight are passed
SourceForms ==
    {
    ArraysGiven,
    [pa |-> "omitted", ecc |-> "omitted", w |-> "omitted"],
    [pa |-> "name", ecc |-> "name", w |-> "name"],
    [pa |-> "list", ecc |-> "ndarray", w |-> "ndarray"],
    [pa |-> "ndarray", ecc |-> "dict", w |-> "ndarray"],
    [pa |-> "ndarray", ecc |-> "ndarray", w |-> "list"],
    [pa |-> "ndarray", ecc |-> "ndarray", w |-> "one"],
    [pa |-> "ndarray", ecc |-> "ndarray", w |-> "omitted"]
    }

WeightCutoffs == {None, Num(0), Num(10), Num(90)}
Scales == {None, Num(200)}
Sigmas == {SigmaNone, SigmaNumber(100), SigmaList(<<5, 50, 200>>), SigmaList(<<5, 50>>)}
Selects == {SelectList1, SelectDistance(500), SelectNone, SelectFunction("empty")}

\* the defaults of lines 246-250
DefaultWeightCutoff == Num(10)
DefaultScale == Num(100)
DefaultSigma == SigmaList(<<5, 30, 200>>)
DefaultSelect == SelectString

\* the arguments of a call; each is drawn where the function first reads it
NoCallArgs ==
    [forms |-> [pa |-> "", ecc |-> "", w |-> ""],
     polar_angle |-> NoneArg, eccentricity |-> NoneArg, weight |-> NoneArg,
     weight_cutoff |-> None, scale |-> None, shape |-> s_Gaussian, suffix |-> <<>>,
     sigma |-> SigmaNone, select |-> SelectNone]

ResolveSources(forms, selects) ==
    /\ ra.pc = "resolve"
    /\ \E f \in forms, sel \in selects :
          \* whether the mesh stores the properties matters to an omitted argument only
          /\ mesh.hasdata \/ "omitted" \in {f.pa, f.ecc, f.w}
          /\ call' = [call EXCEPT !.forms = f,
                                  !.polar_angle = ArgOfForm(mesh, "pa", f.pa),
                                  !.eccentricity = ArgOfForm(mesh, "ecc", f.ecc),
                                  !.weight = ArgOfForm(mesh, "w", f.w),
                                  !.select = sel]
    /\ ra' = RaResolve(mesh, call', ra)
    /\ UNCHANGED <<arg, fc, mesh, topo, cache, mr, rr>>

FilterVertices(cutoffs) ==
    /\ ra.pc = "filter"
    /\ \E c \in cutoffs : call' = [call EXCEPT !.weight_cutoff = c]
    /\ ra' = RaFilter(mesh, call', ra)
    /\ UNCHANGED <<arg, fc, mesh, topo, cache, mr, rr>>

QueryModel ==
    /\ ra.pc = "query"
    /\ \E res \in AngleToCortex(ra.idcs) : ra' = RaQuery(ra, res)
    /\ UNCHANGED <<arg, fc, mesh, call, topo, cache, mr, rr>>

OrganizeData ==
    /\ ra.pc = "organize"
    /\ ra' = RaOrganize(mesh, ra)
    /\ UNCHANGED <<arg, fc, mesh, call, topo, cache, mr, rr>>

FlattenAndReturn(scales, sigmas) ==
    /\ ra.pc = "flatten"
    /\ \E sc \in scales, sg \in sigmas : call' = [call EXCEPT !.scale = sc, !.sigma = sg]
    /\ ra' = RaFlatten(call', ra)
    /\ UNCHANGED <<arg, fc, mesh, topo, cache, mr, rr>>

\* the descriptor returned is handed to the field compiler, as mesh_register
\* does with its field argument (line 192)
CompileAnchors ==
    /\ ra.pc = "returned"
    /\ fc.pc = "idle"
    /\ arg' = ArgList(<<ra.result>>)
    /\ fc' = FcRun(arg', FcCalled)
    /\ UNCHANGED <<mesh, call, ra, topo, cache, mr, rr>>

NoMesh == [n |-> 0, X |-> <<>>, edge_lengths |-> <<>>, data |-> <<>>, hasdata |-> FALSE]

InitAnchors ==
    /\ arg = ArgList(<<>>)
    /\ fc = FcIdle
    /\ mesh \in Meshes
    /\ call = NoCallArgs
    /\ ra = RaCalled
    /\ AtRest

\* retinotopy_anchors on arrays, over its other arguments
NextAnchors ==
    \/ ResolveSources({ArraysGiven}, Selects)
    \/ FilterVertices(WeightCutoffs)
    \/ QueryModel
    \/ OrganizeData
    \/ FlattenAndReturn(Scales, Sigmas)
    \/ CompileAnchors

SpecAnchors == InitAnchors /\ [][NextAnchors]_vars

\* retinotopy_anchors over the forms of polar_angle, eccentricity and weight,
\* with the default cutoff or one above every weight and the other arguments
\* left to their defaults
NextSources ==
    \/ ResolveSources(SourceForms, {DefaultSelect})
    \/ FilterVertices({DefaultWeightCutoff, Num(90)})
    \/ QueryModel
    \/ OrganizeData
    \/ FlattenAndReturn({DefaultScale}, {DefaultSigma})
    \/ CompileAnchors

SpecSources == InitAnchors /\ [][NextSources]_vars

(***************************************************************************)
(* The descriptor lists the compiler is run on.                            *)
(***************************************************************************)
Instructions ==
    {
    InstString(s_mesh),
    InstList(<<Str(s_edge), Str(s_harmonic), Str(s_scale), Num(50)>>),
    InstList(<<Str(s_angle), Str(s_infinite_well)>>),
    InstList(<<Str(s_anchor), Str(s_Gaussian), Arr(<<0>>), Pts(<<Pt(100, 100)>>)>>),
    InstList(<<Str(s_spring), Str(s_harmonic)>>),
    InstList(<<Str(s_edge), Str(s_gaussian)>>),
    InstString(s_edge),
    InstList(<<Str(s_anchor), Str(s_harmonic)>>),
    InstOther
    }

ArgTokens ==
    {Str(s_scale), Str(s_Scale), Str(s_SCALE), Str(s_order),
     Num(50), Num(300), Arr(<<0>>)}

SeqsUpTo(S, m) == UNION {[1..k -> S] : k \in 0..m}

Heads == {<<Str(s_edge), Str(s_harmonic)>>, <<Str(s_anchor), Str(s_Gaussian)>>}

FieldInputs ==
    {ArgList(l) : l \in SeqsUpTo(Instructions, MaxDescriptors)}
    \cup {ArgNotList(<<i>>) : i \in Instructions}
    \cup {ArgList(<<InstList(h \o as)>>) : h \in Heads, as \in SeqsUpTo(ArgTokens, MaxArgs)}

Init ==
    /\ arg \in FieldInputs
    /\ fc = FcCalled
    /\ mesh = NoMesh
    /\ call = NoCallArgs
    /\ ra = RaIdle
    /\ AtRest

Next ==
    \/ ParseFieldArgumentsEnter
    \/ ParseFieldArgumentNext
    \/ ParseFieldArgumentsReturn

Spec == Init /\ [][Next]_vars

(***************************************************************************)
(* Name resolution in a function body: a free name is looked up in the     *)
(* locals of the call, then in the module, then in the builtins.           *)
(***************************************************************************)
\* the names bound at module level: the imports of lines 6-22 and the
\* definitions of lines 27, 44, 62, 92, 106, 202, 203, 244, 402, 439 and 527
ModuleNames ==
    {"np", "sp", "os", "sys", "gzip", "norm", "pi", "Number", "CorticalMesh",
     "empirical_retinotopy_data", "freesurfer_subject", "Registration", "java_link",
     "serialize_numpy", "to_java_doubles", "to_java_ints", "to_java_array", "make_dict",
     "array", "RetinotopyModel", "SchiraModel", "RetinotopyMeshModel", "launch_gateway",
     "JavaGateway", "GatewayParameters", "_parse_field_data_types",
     "_parse_field_function_argument", "_parse_field_argument", "_parse_field_arguments",
     "mesh_register", "__loaded_V123_models", "V123_model", "retinotopy_anchors",
     "register_retinotopy_prepare_hemisphere", "register_retinotopy", "JavaTopology"}

\* the builtins the functions of the module use
Builtins ==
    {"isinstance", "hasattr", "getattr", "len", "range", "zip", "map", "min", "int",
     "float", "long", "open", "type", "list", "tuple", "dict", "basestring", "None",
     "Ellipsis", "RuntimeError", "ValueError"}

Resolves(name, locals) == name \in locals \cup ModuleNames \cup Builtins

(***************************************************************************)
(* JavaTopology: a dictionary of registrations, in the order its keys      *)
(* iterate, beside the engine's topology object.                           *)
(***************************************************************************)
NdArray(dtype, v) == [dtype |-> dtype, v |-> v]
NoArray == NdArray("none", <<>>)

\* neuropythy.java.serialize_numpy(dat, 'd'): the values as bytes of doubles
SerializeNumpy(dat, code) == [code |-> code, v |-> dat.v]

\* MeshTopology.registerBytes: the engine's registration of these coordinates
RegisterBytes(bytes) == [coordinates |-> NdArray("float", bytes.v)]

HasKey(d, k) == \E i \in 1..Len(d) : d[i].key = k
KeyIndex(d, k) == CHOOSE i \in 1..Len(d) : d[i].key = k
Keys(d) == [i \in 1..Len(d) |-> d[i].key]

\* d[k]
DictGetItem(d, k) ==
    IF HasKey(d, k) THEN Returned(d[KeyIndex(d, k)].val) ELSE Raised("KeyError")

\* d[k] = v: a key already there keeps its place; a new key takes the place
\* pos, which its hash decides
DictSetItem(d, k, v, pos) ==
    IF HasKey(d, k) THEN [d EXCEPT ![KeyIndex(d, k)].val = v]
    ELSE SubSeq(d, 1, pos - 1) \o <<[key |-> k, val |-> v]>> \o SubSeq(d, pos, Len(d))

\* lines 540-541: the registrations of a new topology, from the dictionary
\* given as a sequence of items
RECURSIVE JavaTopologyInit(_)
JavaTopologyInit(registrations) ==
    IF registrations = <<>> THEN <<>>
    ELSE <<[key |-> Head(registrations).key,
            val |-> RegisterBytes(SerializeNumpy(Head(registrations).val, "d"))]>>
         \o JavaTopologyInit(Tail(registrations))

\* a lookup that stores and returns an empty registration for a missing name
GetItemSetDefault(registrations, attribute) ==
    IF HasKey(registrations, attribute)
    THEN [out |-> Returned(registrations[KeyIndex(registrations, attribute)].val),
          registrations |-> registrations]
    ELSE [out |-> Returned(RegisterBytes(SerializeNumpy(NoArray, "d"))),
          registrations |-> DictSetItem(registrations, attribute,
                                        RegisterBytes(SerializeNumpy(NoArray, "d")), 1)]

\* lines 545-546: __getitem__, with the dictionary it leaves
GetItem(registrations, attribute) ==
    [out |-> DictGetItem(registrations, attribute), registrations |-> registrations]

\* an assignment that keeps the registration a name already has
SetItemIfAbsent(registrations, attribute, dat, pos) ==
    IF HasKey(registrations, attribute) THEN registrations
    ELSE DictSetItem(registrations, attribute, RegisterBytes(SerializeNumpy(dat, "d")), pos)

\* lines 547-548: __setitem__
SetItem(registrations, attribute, dat, pos) ==
    DictSetItem(registrations, attribute, RegisterBytes(SerializeNumpy(dat, "d")), pos)

\* the arguments of a call: a topology, a per-vertex data list, or one value
TopoArg(t) == [k |-> "topo", v |-> t]
DataArg(d) == [k |-> "data", v |-> d]
ValueArg(x) == [k |-> "value", v |-> <<x>>]

\* line 565: def interpolate(fromtopo, data, order=2, fill=None)
InterpolateParams == <<"fromtopo", "data", "order", "fill">>
InterpolateDefaults ==
    [n \in {"order", "fill"} |-> IF n = "order" THEN ValueArg(Num(200)) ELSE ValueArg(None)]

\* the binding of the arguments of a call to the parameters; positional holds
\* the instance the method is called on first
BindInterpolate(positional, keywords) ==
    LET params == InterpolateParams
        names == {params[i] : i \in 1..Len(params)}
        byPosition == {params[i] : i \in 1..Min({Len(positional), Len(params)})}
        byKeyword == {keywords[i].name : i \in 1..Len(keywords)}
        value(n) ==
            IF n \in byPosition
            THEN positional[CHOOSE i \in 1..Len(params) : params[i] = n]
            ELSE IF n \in byKeyword
            THEN keywords[CHOOSE i \in 1..Len(keywords) : keywords[i].name = n].val
            ELSE InterpolateDefaults[n]
    IN  IF Len(positional) > Len(params) THEN Raised("TypeError")
        ELSE IF byKeyword \cap byPosition # {} THEN Raised("TypeError")
        ELSE IF ~(byKeyword \subseteq names) THEN Raised("TypeError")
        ELSE IF ~({"fromtopo", "data"} \subseteq byPosition \cup byKeyword)
        THEN Raised("TypeError")
        ELSE Returned([n \in names |-> value(n)])

\* MeshTopology.interpolateBytes: for each vertex of the target the value that
\* the source carries at its place
InterpolateBytes(fromRegistration, coordinates, order, values) == values

InterpolateOutcome(pc, err, key, calls, result) ==
    [pc |-> pc, err |-> err, key |-> key, calls |-> calls, result |-> result]

\* lines 566-586, with the locals env of the call
InterpolateBody(env) ==
    LET locals == (DOMAIN env) \cup {"usable_keys"} IN
    IF ~Resolves("registrations", locals)
    THEN InterpolateOutcome("raised", "NameError", "", 0, <<>>)
    ELSE
    LET registrations == env["registrations"].v
        fromtopo == env["fromtopo"].v
        usable_keys == SelectSeq(Keys(registrations), LAMBDA k : HasKey(fromtopo, k))
    IN
    IF usable_keys = <<>>
    THEN InterpolateOutcome("raised", "RuntimeError", "", 0, <<>>)
    ELSE
    LET the_key == usable_keys[1]
        data == env["data"].v
        jmask == [i \in 1..Len(data) |-> IF data[i].t # "none" THEN 100 ELSE 0]
        jdata == [i \in 1..Len(data) |-> IF data[i].t # "none" THEN data[i].n ELSE 0]
    IN
    IF ~Resolves("self", locals \cup {"the_key", "jmask", "jdata"})
    THEN InterpolateOutcome("raised", "NameError", the_key, 0, <<>>)
    ELSE
    LET self == env["self"].v
        maskres == InterpolateBytes(DictGetItem(fromtopo, the_key).val,
                                    DictGetItem(self, the_key).val.coordinates,
                                    env["order"].v[1], jdata)
        datares == InterpolateBytes(DictGetItem(fromtopo, the_key).val,
                                    DictGetItem(self, the_key).val.coordinates,
                                    env["order"].v[1], jmask)
    IN  InterpolateOutcome("returned", "", the_key, 2,
                           [i \in 1..Len(maskres) |->
                               IF maskres[i] = 100 THEN Num(datares[i])
                               ELSE env["fill"].v[1]])

\* lines 565-586: a call of interpolate
Interpolate(positional, keywords) ==
    LET bound == BindInterpolate(positional, keywords)
    IN  IF ~bound.ok THEN InterpolateOutcome("raised", bound.err, "", 0, <<>>)
        ELSE InterpolateBody(bound.val)

RegistrationNames == {"fsaverage_sym", "fsaverage", "retinotopy"}
CoordinateSets == {NdArray("float", <<150, -20>>), NdArray("int", <<100, 200>>)}

Item(k, v) == [key |-> k, val |-> v]

\* the dictionaries a topology is made from, as the items iterate
InitialRegistrations ==
    {<<>>} \cup
    {<<Item("fsaverage", c)>> : c \in CoordinateSets} \cup
    {<<Item("fsaverage_sym", c), Item("fsaverage", c)>> : c \in CoordinateSets} \cup
    {<<Item("fsaverage", c), Item("fsaverage_sym", c)>> : c \in CoordinateSets}

\* the registrations of the topology that data is interpolated from
SourceRegistrations ==
    {<<>>,
     <<Item("fsaverage", NdArray("float", <<150, -20>>))>>,
     <<Item("fsaverage_sym", NdArray("float", <<150, -20>>)),
       Item("fsaverage", NdArray("float", <<150, -20>>))>>}

\* the coordinates last given for each name, in the constructor or in an
\* assignment
WrittenBy(items) ==
    [n \in RegistrationNames |->
        IF HasKey(items, n) THEN items[KeyIndex(items, n)].val ELSE NoArray]

DataLists == {<<Num(150), None>>, <<None, None>>, <<Num(150), Num(-20)>>}
Fills == {None, Num(-100)}

\* the ways a caller passes the arguments after the source and the data:
\* nothing more, fill by keyword, or order and fill by position
InterpolateCalls ==
    {[positional |-> <<>>, keywords |-> <<>>]} \cup
    {[positional |-> <<>>, keywords |-> <<[name |-> "fill", val |-> ValueArg(f)]>>] :
        f \in Fills} \cup
    {[positional |-> <<ValueArg(Num(200)), ValueArg(f)>>, keywords |-> <<>>] : f \in Fills}

\* the fill value a call passes
FillPassed(c) ==
    IF c.keywords # <<>> THEN c.keywords[1].val.v[1]
    ELSE IF c.positional # <<>> THEN c.positional[2].v[1]
    ELSE None

AnchorsAtRest ==
    /\ arg = ArgList(<<>>)
    /\ fc = FcIdle
    /\ mesh = NoMesh
    /\ call = NoCallArgs
    /\ ra = RaIdle

\* topology[name] = dat
TopologySetItem ==
    /\ \E name \in RegistrationNames, dat \in CoordinateSets,
          pos \in 1..(Len(topo.self) + 1) :
          topo' = [topo EXCEPT
                     !.self = SetItem(topo.self, name, dat, pos),
                     !.written = [topo.written EXCEPT ![name] = dat],
                     !.op = [NoOp EXCEPT !.kind = "setitem", !.name = name,
                                         !.pc = "returned", !.before = topo.self]]
    /\ UNCHANGED <<arg, fc, mesh, call, ra, cache, mr, rr>>

\* topology[name]
TopologyGetItem ==
    /\ \E name \in RegistrationNames :
          LET r == GetItem(topo.self, name) IN
          topo' = [topo EXCEPT
                     !.self = r.registrations,
                     !.op = [NoOp EXCEPT !.kind = "getitem", !.name = name,
                                         !.pc = IF r.out.ok THEN "returned" ELSE "raised",
                                         !.err = r.out.err,
                                         !.result = IF r.out.ok THEN <<r.out.val>> ELSE <<>>,
                                         !.before = topo.self]]
    /\ UNCHANGED <<arg, fc, mesh, call, ra, cache, mr, rr>>

\* topology.interpolate(source, data, ...)
TopologyInterpolate ==
    /\ \E data \in DataLists, c \in InterpolateCalls :
          LET r == Interpolate(<<TopoArg(topo.self), TopoArg(topo.from), DataArg(data)>>
                               \o c.positional, c.keywords)
          IN  topo' = [topo EXCEPT
                         !.op = [NoOp EXCEPT !.kind = "interpolate", !.pc = r.pc,
                                             !.err = r.err, !.result = r.result,
                                             !.before = topo.self, !.key = r.key,
                                             !.calls = r.calls, !.data = data,
                                             !.fill = FillPassed(c)]]
    /\ UNCHANGED <<arg, fc, mesh, call, ra, cache, mr, rr>>

InitTopology ==
    /\ AnchorsAtRest
    /\ cache = CacheIdle
    /\ mr = MrIdle
    /\ rr = RrIdle
    /\ \E r \in InitialRegistrations, f \in SourceRegistrations :
          topo = [self |-> JavaTopologyInit(r), from |-> JavaTopologyInit(f),
                  written |-> WrittenBy(r), op |-> NoOp]

NextTopology ==
    \/ TopologySetItem
    \/ TopologyGetItem
    \/ TopologyInterpolate

SpecTopology == InitTopology /\ [][NextTopology]_vars

(***************************************************************************)
(* V123_model and its cache __loaded_V123_models.                          *)
(***************************************************************************)
MaxModels == 3

ModelNames == {"standard", "v2"}

\* line 222
ModelFileHeader == "Flat Mesh Model Version: 1.0"

\* a path of the lib/models directory: whether a file is there, and its lines
NoFile == [isfile |-> FALSE, lines |-> <<>>]
FileOf(lines) == [isfile |-> TRUE, lines |-> lines]
ValidFile == FileOf(<<ModelFileHeader, "n: 1", "m: 1", "tx: [1,0;0,1]", "0,0 :: 0,1,1", "1,1,1">>)
WrongVersionFile ==
    FileOf(<<"Flat Mesh Model Version: 2.0", "n: 1", "m: 1", "tx: [1,0;0,1]",
             "0,0 :: 0,1,1", "1,1,1">>)
ShortFile == FileOf(<<ModelFileHeader, "n: 1">>)
MalformedFile == FileOf(<<ModelFileHeader, "n: one", "m: 1", "tx: [1,0;0,1]", "0,0 :: 0,1,1", "1,1,1">>)

\* lines 224-237: int() and float() of the fields of the file
ParsesAsCount(line) == line \in {"n: 1", "m: 1"}

V123Outcome(c, pc, err, result, reads) ==
    [cache |-> c, pc |-> pc, err |-> err, result |-> result, reads |-> reads]

\* a call that goes to the file whatever the cache holds
V123ModelAlwaysLoads(c, name) ==
    LET f == IF c.files[name].plain.isfile THEN c.files[name].plain ELSE c.files[name].gz
    IN  IF ~f.isfile THEN V123Outcome(c, "raised", "ValueError", 0, 0)
        ELSE IF Len(f.lines) < 3 \/ f.lines[1] # ModelFileHeader
        THEN V123Outcome(c, "raised", "ValueError", 0, 1)
        ELSE IF ~ParsesAsCount(f.lines[2]) \/ ~ParsesAsCount(f.lines[3])
        THEN V123Outcome(c, "raised", "ValueError", 0, 1)
        ELSE V123Outcome([c EXCEPT !.loaded[name] = c.made + 1, !.made = c.made + 1],
                         "returned", "", c.made + 1, 1)

\* lines 210-242: V123_model(name) on the cache and files c; a model object is
\* known by the number of its construction
V123Model(c, name) ==
    IF c.loaded[name] # 0 THEN V123Outcome(c, "returned", "", c.loaded[name], 0)
    ELSE
    LET f == IF c.files[name].plain.isfile THEN c.files[name].plain ELSE c.files[name].gz
    IN  IF ~f.isfile THEN V123Outcome(c, "raised", "ValueError", 0, 0)
        ELSE IF Len(f.lines) < 3 \/ f.lines[1] # ModelFileHeader
        THEN V123Outcome(c, "raised", "ValueError", 0, 1)
        ELSE IF ~ParsesAsCount(f.lines[2]) \/ ~ParsesAsCount(f.lines[3])
        THEN V123Outcome(c, "raised", "ValueError", 0, 1)
        ELSE V123Outcome([c EXCEPT !.loaded[name] = c.made + 1, !.made = c.made + 1],
                         "returned", "", c.made + 1, 1)

PlainFiles == {NoFile, ValidFile, WrongVersionFile, ShortFile, MalformedFile}
GzipFiles == {NoFile, ValidFile}

\* V123_model(name)
CallV123Model ==
    /\ cache.made < MaxModels
    /\ \E name \in ModelNames :
          LET r == V123Model(cache, name) IN
          cache' = [r.cache EXCEPT
                      !.op = [NoOp EXCEPT !.kind = "V123_model", !.name = name,
                                          !.pc = r.pc, !.err = r.err,
                                          !.result = <<r.result>>,
                                          !.before = cache.loaded, !.calls = r.reads]]
    /\ UNCHANGED <<arg, fc, mesh, call, ra, topo, mr, rr>>

\* the files of the models directory change between calls
ReplaceFile ==
    /\ \E name \in ModelNames, p \in PlainFiles, g \in GzipFiles :
          /\ [plain |-> p, gz |-> g] # cache.files[name]
          /\ cache' = [cache EXCEPT !.files[name] = [plain |-> p, gz |-> g],
                                    !.op = [NoOp EXCEPT !.kind = "file", !.name = name,
                                                        !.before = cache.loaded]]
    /\ UNCHANGED <<arg, fc, mesh, call, ra, topo, mr, rr>>

InitModels ==
    /\ AnchorsAtRest
    /\ topo = TopoIdle
    /\ mr = MrIdle
    /\ rr = RrIdle
    /\ \E files \in [ModelNames -> [plain : PlainFiles, gz : GzipFiles]] :
          cache = [loaded |-> [n \in ModelNames |-> 0], files |-> files, made |-> 0,
                   op |-> NoOp]

NextModels ==
    \/ CallV123Model
    \/ ReplaceFile

SpecModels == InitModels /\ [][NextModels]_vars

(***************************************************************************)
(* mesh_register.                                                          *)
(***************************************************************************)
\* Python numbers with their type; n is in hundredths
IntValue(i) == [None EXCEPT !.t = "int", !.n = 100 * i]
FloatValue(x) == [None EXCEPT !.t = "float", !.n = x]

s_fast == <<"f","a","s","t">>
s_0_05 == <<"0",".","0","5">>

IsInstance(v, types) == v.t \in types

\* Python 2 orders None below every number and a string above every number
PyLess(v, x) ==
    IF v.t \in {"int", "float"} THEN v.n < x ELSE v.t = "none"
PyLessEq(v, x) ==
    IF v.t \in {"int", "float"} THEN v.n <= x ELSE v.t = "none"
PyGreater(v, x) ==
    IF v.t \in {"int", "float"} THEN v.n > x ELSE v.t # "none"

\* float(v)
PyFloat(v) ==
    IF v.t \in {"int", "float"} THEN Returned(v.n)
    ELSE IF v.t = "str"
    THEN (IF v.s = s_0_05 THEN Returned(5) ELSE Raised("ValueError"))
    ELSE Raised("TypeError")

\* int(v)
PyInt(v) ==
    IF v.t \in {"int", "float"} THEN Returned(v.n - (v.n % 100))
    ELSE IF v.t = "str" THEN Raised("ValueError")
    ELSE Raised("TypeError")

MrRaise(m, e) == [m EXCEPT !.pc = "raised", !.err = e, !.at = m.pc]

\* line 183: the type tested is that of max_steps
StepSizeCheck(m) ==
    ~IsInstance(m.max_steps, {"float", "int"}) \/ PyLessEq(m.max_step_size, 0)

\* lines 179-188
MrValidate(m) ==
    IF ~m.mesh THEN MrRaise(m, "RuntimeError")
    ELSE IF ~IsInstance(m.max_steps, {"int"}) \/ PyLess(m.max_steps, 100)
    THEN MrRaise(m, "RuntimeError")
    ELSE IF StepSizeCheck(m) THEN MrRaise(m, "RuntimeError")
    ELSE IF \/ ~IsInstance(m.max_pe_change, {"float", "int"})
            \/ PyLessEq(m.max_pe_change, 0)
            \/ PyGreater(m.max_pe_change, 100)
    THEN MrRaise(m, "RuntimeError")
    ELSE IF ~IsInstance(m.k, {"int"}) \/ PyLess(m.k, 100) THEN MrRaise(m, "RuntimeError")
    ELSE [m EXCEPT !.pc = "compile"]

\* lines 190-192, given the compiler's outcome f
MrCompiled(m, f) ==
    IF f.pc = "raised" THEN MrRaise(m, f.err) ELSE [m EXCEPT !.pc = "minimize"]

\* lines 194-198: the minimizer is made, then step or nimbleStep is called with
\* the converted arguments
MrMinimize(m) ==
    LET made == [m EXCEPT !.minimizer = m.minimizer + 1]
        pe == PyFloat(m.max_pe_change)
        ms == PyInt(m.max_steps)
        sz == PyFloat(m.max_step_size)
        kk == PyInt(m.k)
    IN  IF ~pe.ok THEN MrRaise(made, pe.err)
        ELSE IF ~ms.ok THEN MrRaise(made, ms.err)
        ELSE IF ~sz.ok THEN MrRaise(made, sz.err)
        ELSE IF m.k = IntValue(1)
        THEN [made EXCEPT !.pc = "result",
                          !.steps = <<[method |-> "step",
                                       args |-> <<pe.val, ms.val, sz.val>>]>>]
        ELSE [made EXCEPT !.pc = "result",
                          !.steps = <<[method |-> "nimbleStep",
                                       args |-> <<pe.val, ms.val, sz.val, kk.val>>]>>]

\* lines 199-200
MrReturn(m) == [m EXCEPT !.pc = "returned", !.returned = TRUE]

\* the values tried for the arguments of mesh_register
MaxStepsValues == {IntValue(2000), IntValue(0), FloatValue(200000), None}
MaxStepSizeValues ==
    {FloatValue(5), IntValue(0), FloatValue(-5), Str(s_fast), Str(s_0_05), None}
MaxPeChangeValues == {IntValue(1), FloatValue(50), IntValue(0), FloatValue(150), Str(s_fast)}
KValues == {IntValue(4), IntValue(1), IntValue(0), FloatValue(400)}

\* the field arguments tried: two descriptors, one descriptor, a descriptor of
\* an unknown type, and a string in place of the list
FieldArguments ==
    {ArgList(<<InstList(<<Str(s_edge), Str(s_harmonic), Str(s_scale), Num(50)>>),
               InstList(<<Str(s_angle), Str(s_infinite_well)>>)>>),
     ArgList(<<InstString(s_mesh)>>),
     ArgList(<<InstString(s_spring)>>),
     ArgNotList(<<>>)}

\* lines 179-188
MeshRegisterValidate ==
    /\ mr.pc = "validate"
    /\ \E m \in BOOLEAN, ms \in MaxStepsValues, sz \in MaxStepSizeValues,
          pe \in MaxPeChangeValues, kk \in KValues :
          mr' = MrValidate([mr EXCEPT !.mesh = m, !.max_steps = ms, !.max_step_size = sz,
                                      !.max_pe_change = pe, !.k = kk])
    /\ UNCHANGED <<arg, fc, mesh, call, ra, topo, cache, rr>>

\* lines 190-192
MeshRegisterCompile ==
    /\ mr.pc = "compile"
    /\ fc' = FcRun(arg, FcCalled)
    /\ mr' = MrCompiled(mr, fc')
    /\ UNCHANGED <<arg, mesh, call, ra, topo, cache, rr>>

\* lines 194-198
MeshRegisterMinimize ==
    /\ mr.pc = "minimize"
    /\ mr' = MrMinimize(mr)
    /\ UNCHANGED <<arg, fc, mesh, call, ra, topo, cache, rr>>

\* lines 199-200
MeshRegisterReturn ==
    /\ mr.pc = "result"
    /\ mr' = MrReturn(mr)
    /\ UNCHANGED <<arg, fc, mesh, call, ra, topo, cache, rr>>

InitMeshRegister ==
    /\ arg \in FieldArguments
    /\ fc = FcIdle
    /\ mesh = NoMesh
    /\ call = NoCallArgs
    /\ ra = RaIdle
    /\ topo = TopoIdle
    /\ cache = CacheIdle
    /\ rr = RrIdle
    /\ mr = [MrIdle EXCEPT !.pc = "validate"]

NextMeshRegister ==
    \/ MeshRegisterValidate
    \/ MeshRegisterCompile
    \/ MeshRegisterMinimize
    \/ MeshRegisterReturn

SpecMeshRegister == InitMeshRegister /\ [][NextMeshRegister]_vars

(***************************************************************************)
(* The registration of a hemisphere: register_retinotopy_prepare_hemisphere *)
(* and register_retinotopy.  The hemisphere is the variable mesh: its data  *)
(* are the per-vertex properties, and rr.hemi.found the kinds of data that  *)
(* a lookup on it finds.                                                    *)
(***************************************************************************)
Kinds == {"pa", "ecc", "w"}

\* hemi.prop(name) and empirical_retinotopy_data(hemi, kind): the per-vertex
\* property of the hemisphere, or None
HemiLookup(m, hemi, f) ==
    IF f \in hemi.found THEN [none |-> FALSE, v |-> Column(m, f)]
    ELSE [none |-> TRUE, v |-> <<>>]

\* lines 414-417: one of polar_angle, eccentricity and weight is a property
\* name, an iterable, something else that is not None, or None
ResolveProperty(m, hemi, form, f) ==
    IF form = "name" THEN HemiLookup(m, hemi, f)
    ELSE IF form = "list" THEN [none |-> FALSE, v |-> Column(m, f)]
    ELSE IF form = "scalar" THEN [none |-> TRUE, v |-> <<>>]
    ELSE HemiLookup(m, hemi, f)

\* a weight that is 0 only where the polar angle or the weight is None
PrepareWeightAngleOnly(a, e, w) ==
    (IF w.t = "none" THEN 0 ELSE w.n) * (IF a.t = "none" THEN 0 ELSE 1)

\* line 425: the weight of one vertex
PrepareWeight(a, e, w) ==
    (IF w.t = "none" THEN 0 ELSE w.n) * (IF a.t = "none" THEN 0 ELSE 1)
                                      * (IF e.t = "none" THEN 0 ELSE 1)

\* lines 427 and 428: None becomes 0
ZeroIfNone(x) == IF x.t = "none" THEN 0 ELSE x.n

\* zip of line 426: as long as the shortest of its arguments
ZipLen(a, b, c) == Min({Len(a), Len(b), Len(c)})

\* lines 413-428
RrHarmonize(m, r, forms) ==
    LET ang == ResolveProperty(m, r.hemi, forms.pa, "pa")
        ecc == ResolveProperty(m, r.hemi, forms.ecc, "ecc")
        wgt == ResolveProperty(m, r.hemi, forms.w, "w")
        called == [r EXCEPT !.entry = "prepare", !.forms = forms]
    IN  IF ang.none THEN [called EXCEPT !.pc = "raised", !.err = "ValueError", !.at = 421]
        ELSE IF ecc.none
        THEN [called EXCEPT !.pc = "raised", !.err = "ValueError", !.at = 422]
        ELSE LET ws == IF wgt.none THEN [i \in 1..Len(ecc.v) |-> Num(100)] ELSE wgt.v
             IN  [called EXCEPT
                    !.pc = "interpolate",
                    !.weighted = ~wgt.none,
                    !.wgt = [i \in 1..ZipLen(ang.v, ecc.v, ws) |->
                                PrepareWeight(ang.v[i], ecc.v[i], ws[i])],
                    !.ang = [i \in 1..Len(ang.v) |-> ZeroIfNone(ang.v[i])],
                    !.ecc = [i \in 1..Len(ecc.v) |-> ZeroIfNone(ecc.v[i])],
                    !.stages = Append(r.stages, "RAW_PROPERTIES")]

\* lines 430-434: the three arrays become properties of the fsaverage_sym
\* left hemisphere, taken from hemi or, for a right hemisphere, from its
\* mirror image
RrInterpolate(r) ==
    [r EXCEPT !.pc = "project",
              !.template = <<[from |-> IF r.hemi.chirality = "LH" THEN "hemi" ELSE "RHX",
                              polar_angle |-> r.ang, eccentricity |-> r.ecc,
                              weight |-> r.wgt]>>,
              !.stages = Append(r.stages, "TEMPLATE_INTERPOLATED")]

\* pi/3.0, in hundredths
DefaultRadius == 105

\* lines 436-437
RrProject(r, radius) ==
    [r EXCEPT !.pc = "returned",
              !.msym = <<[mesh |-> r.template[1], radius |-> radius]>>,
              !.stages = Append(r.stages, "FLAT_PROJECTED")]

\* the parameters of register_retinotopy, line 439
RegisterParams ==
    {"hemi", "retinotopy_model", "radius", "polar_angle", "eccentricity", "weight",
     "weight_cutoff", "edge_scale", "angle_scale", "functional_scale", "sigma", "select",
     "max_steps", "max_step_size", "registration_name"}

Statement(line, uses, binds, stages, minimizes, stores) ==
    [line |-> line, uses |-> uses, binds |-> binds, stages |-> stages,
     minimizes |-> minimizes, stores |-> stores]

\* lines 480-524: each statement with the free names it reads, the names it
\* binds, the stages it completes, the calls of mesh_register it makes, and
\* whether it stores a registration
RegisterStatements ==
    <<Statement(480, {"register_retinotopy_prepare_map", "hemi", "radius", "polar_angle",
                      "eccentricity", "weight", "weight_cutoff"}, {"msym"},
                <<"RAW_PROPERTIES", "TEMPLATE_INTERPOLATED", "FLAT_PROJECTED">>, 0, FALSE),
      Statement(484, {"msym"}, {"sym"}, <<>>, 0, FALSE),
      Statement(486, {"V123_model", "retinotopy_model"}, {}, <<>>, 0, FALSE),
      Statement(487, {"mesh_register", "msym", "edge_scale", "angle_scale",
                      "retinotopy_anchors", "retinotopy_model", "weight_cutoff",
                      "functional_scale", "select", "sigma", "Ellipsis", "max_steps",
                      "max_step_size"}, {"r"}, <<"OPTIMIZED">>, 1, FALSE),
      Statement(503, {"lhemi", "radius"}, {"msub"}, <<>>, 0, FALSE),
      Statement(504, {"msub"}, {"subvtcs"}, <<>>, 0, FALSE),
      Statement(505, {"msub", "ang", "subvtcs"}, {}, <<>>, 0, FALSE),
      Statement(506, {"msub", "ecc", "subvtcs"}, {}, <<>>, 0, FALSE),
      Statement(507, {"msub", "wgt", "subvtcs"}, {}, <<>>, 0, FALSE),
      Statement(509, {"msym", "r"}, {"symrsphere"}, <<>>, 0, FALSE),
      Statement(511, {"np", "sym"}, {"symregcoords"}, <<>>, 0, FALSE),
      Statement(512, {"symregcoords", "msym", "symrsphere"}, {}, <<>>, 0, FALSE),
      Statement(513, {"sym", "symregcoords"}, {"symregmesh"}, <<"BACK_PROJECTED">>, 0, FALSE),
      Statement(516, {"sym", "lhemi", "subvtcs"}, {"addr"}, <<>>, 0, FALSE),
      Statement(517, {"symregmesh", "addr"}, {"subrsphere"}, <<>>, 0, FALSE),
      Statement(518, {"msub", "subrsphere"}, {}, <<>>, 0, FALSE),
      Statement(519, {"registration_name", "np", "lhemi", "subvtcs", "subrsphere", "hemi"},
                {"subregcoords"}, <<"REGISTERED">>, 0, TRUE),
      Statement(524, {"msub"}, {}, <<>>, 0, FALSE)>>

RegisterProgress(pc, err, at, stages, minimizer, stored) ==
    [pc |-> pc, err |-> err, at |-> at, stages |-> stages, minimizer |-> minimizer,
     stored |-> stored]

RECURSIVE RunStatements(_, _, _, _)
\* the statements from the k-th on, with the names bound so far: a free name
\* that resolves nowhere raises NameError
RunStatements(stmts, k, locals, p) ==
    IF k > Len(stmts) THEN [p EXCEPT !.pc = "returned"]
    ELSE LET st == stmts[k] IN
         IF \E name \in st.uses : ~Resolves(name, locals)
         THEN [p EXCEPT !.pc = "raised", !.err = "NameError", !.at = st.line]
         ELSE RunStatements(stmts, k + 1, locals \cup st.binds,
                            [p EXCEPT !.stages = p.stages \o st.stages,
                                      !.minimizer = p.minimizer + st.minimizes,
                                      !.stored = p.stored \/ st.stores])

\* lines 480-524
RegisterBody ==
    RunStatements(RegisterStatements, 1, RegisterParams,
                  RegisterProgress("running", "", 0, <<>>, 0, FALSE))

\* the registered coordinates handed to the topology at line 522
RegisteredCoordinates == NdArray("float", <<120, -40>>)

Hemispheres ==
    [chirality : {"LH", "RH"}, found : {Kinds, {"pa", "ecc"}, {"w"}}]

PropertyForms ==
    {[pa |-> "omitted", ecc |-> "omitted", w |-> "omitted"],
     [pa |-> "name", ecc |-> "name", w |-> "name"],
     [pa |-> "list", ecc |-> "list", w |-> "list"],
     [pa |-> "list", ecc |-> "list", w |-> "scalar"],
     [pa |-> "scalar", ecc |-> "list", w |-> "list"],
     [pa |-> "list", ecc |-> "omitted", w |-> "name"]}

Radii == {DefaultRadius, 52}

\* register_retinotopy_prepare_hemisphere(hemi, ...), lines 413-428
PrepareHarmonize ==
    /\ rr.pc = "idle"
    /\ \E forms \in PropertyForms : rr' = RrHarmonize(mesh, rr, forms)
    /\ UNCHANGED <<arg, fc, mesh, call, ra, topo, cache, mr>>

PrepareInterpolate ==
    /\ rr.entry = "prepare"
    /\ rr.pc = "interpolate"
    /\ rr' = RrInterpolate(rr)
    /\ UNCHANGED <<arg, fc, mesh, call, ra, topo, cache, mr>>

PrepareProject ==
    /\ rr.entry = "prepare"
    /\ rr.pc = "project"
    /\ \E radius \in Radii : rr' = RrProject(rr, radius)
    /\ UNCHANGED <<arg, fc, mesh, call, ra, topo, cache, mr>>

\* register_retinotopy(hemi, ..., registration_name=name)
RegisterRetinotopy ==
    /\ rr.pc = "idle"
    /\ \E forms \in PropertyForms, name \in RegistrationNames \cup {""},
          pos \in 1..(Len(topo.self) + 1) :
          LET p == RegisterBody IN
          /\ rr' = [rr EXCEPT !.entry = "register", !.forms = forms,
                              !.registration_name = name, !.pc = p.pc, !.err = p.err,
                              !.at = p.at, !.stages = p.stages,
                              !.minimizer = p.minimizer, !.before = topo.self]
          /\ topo' = IF p.stored /\ name # ""
                     THEN [topo EXCEPT
                             !.self = SetItem(topo.self, name, RegisteredCoordinates, pos)]
                     ELSE topo
    /\ UNCHANGED <<arg, fc, mesh, call, ra, cache, mr>>

InitRegister ==
    /\ arg = ArgList(<<>>)
    /\ fc = FcIdle
    /\ mesh \in Meshes
    /\ call = NoCallArgs
    /\ ra = RaIdle
    /\ cache = CacheIdle
    /\ mr = MrIdle
    /\ \E h \in Hemispheres : rr = [RrIdle EXCEPT !.hemi = h]
    /\ \E r \in InitialRegistrations :
          topo = [TopoIdle EXCEPT !.self = JavaTopologyInit(r)]

NextRegister ==
    \/ PrepareHarmonize
    \/ PrepareInterpolate
    \/ PrepareProject
    \/ RegisterRetinotopy

SpecRegister == InitRegister /\ [][NextRegister]_vars

(***************************************************************************)
(* Claims about the field compiler.                                        *)
(***************************************************************************)

\* C1: a list of one descriptor returns the handle of that descriptor's own term
\* and makes no sum-combinator; a list of two or more returns one sum-combinator
\* to which the terms of the list were added once each, in list order.
C1_SingleDirectOthersSummed ==
    fc.pc = "done" =>
        LET n == Len(arg.items) IN
        /\ Len(fc.terms) = n
        /\ \A i \in 1..n : fc.terms[i] = ParseFieldArgument(arg.items[i]).call
        /\ n = 1 => /\ fc.result = TermHandle(1)
                    /\ fc.sums = 0
                    /\ fc.sumFields = <<>>
        /\ n >= 2 => /\ fc.sums = 1
                     /\ fc.result = SumHandle(1)
                     /\ fc.sumFields = [i \in 1..n |-> TermHandle(i)]

C1_Witness ==
    /\ fc.pc = "done"
    /\ Len(arg.items) = 2
    /\ fc.result = SumHandle(1)
    /\ fc.sumFields = <<TermHandle(1), TermHandle(2)>>

\* C2: when the compile call fails, no engine term constructor has run for any
\* descriptor of the list.
C2_NoConstructorBeforeFailure ==
    fc.pc = "raised" => fc.terms = <<>>

SameLetter(c, d) ==
    \/ c = d
    \/ \E i \in 1..26 : {c, d} = {UpperCase[i], LowerCase[i]}

NamesParameter(tok, name) ==
    /\ tok.t = "str"
    /\ Len(tok.s) = Len(name)
    /\ \A i \in 1..Len(name) : SameLetter(tok.s[i], name[i])

PassedToEngine(v) == IF v.t = "num" THEN v ELSE [v EXCEPT !.j = TRUE]

RemainingArguments(inst, isdict) ==
    IF inst.kind = "str" THEN <<>>
    ELSE SubSeq(inst.items, IF isdict THEN 3 ELSE 2, Len(inst.items))

EdgeHarmonicScaled(name) ==
    ArgList(<<InstList(<<Str(s_edge), Str(s_harmonic), Str(name), Num(50)>>)>>)

\* C3: in every compiled term, each (name, default) slot of the schema holds the
\* value that follows the first argument matching the name without regard to
\* case (a number as it is, anything else as an engine array), and the schema
\* default when no argument matches; (edge, harmonic, scale, 0.5) gives
\* scale 0.5 and order 2.0, also written Scale or SCALE.
C3_DefaultResolution ==
    fc.pc = "done" =>
        /\ \A d \in 1..Len(arg.items) :
              LET e == CHOOSE e \in ParseFieldDataTypes :
                          e.data.method = fc.terms[d].method
                  rest == RemainingArguments(arg.items[d], e.isdict)
                  slots == e.data.slots
              IN  \A k \in 1..Len(slots) :
                     slots[k].k = "named" =>
                        LET hits == {i \in 1..Len(rest) :
                                        NamesParameter(rest[i], slots[k].name)}
                        IN  IF hits = {}
                            THEN fc.terms[d].args[k] = Num(slots[k].dflt)
                            ELSE \E i \in hits :
                                    /\ \A h \in hits : i <= h
                                    /\ i < Len(rest)
                                    /\ fc.terms[d].args[k] = PassedToEngine(rest[i + 1])
        /\ arg \in {EdgeHarmonicScaled(s_scale), EdgeHarmonicScaled(s_Scale),
                    EdgeHarmonicScaled(s_SCALE)} =>
              fc.terms[1] = [method |-> "newHarmonicEdgePotential",
                             args |-> <<Num(50), Num(200), Faces, Coords>>]

C3_Witness ==
    /\ fc.pc = "done"
    /\ arg = EdgeHarmonicScaled(s_SCALE)
    /\ fc.terms[1].args[1] = Num(50)
    /\ fc.terms[1].args[2] = Num(200)

(***************************************************************************)
(* The anchor builder.                                                     *)
(***************************************************************************)
\* the steps of retinotopy_anchors after the one named
StepsAfter(step) ==
    IF step = "resolve" THEN {"filter", "query", "organize", "flatten"}
    ELSE IF step = "filter" THEN {"query", "organize", "flatten"}
    ELSE IF step = "query" THEN {"organize", "flatten"}
    ELSE IF step = "organize" THEN {"flatten"}
    ELSE {}

\* the call has carried out the step named
Done(step) ==
    \/ ra.pc \in StepsAfter(step) \cup {"returned"}
    \/ ra.pc = "raised" /\ ra.at \in StepsAfter(step)

Defined(v) == v.t # "none"

\* the test of the filter on vertex i of the mesh, for the cutoff of the call
MeetsFilter(i) ==
    LET v == mesh.data[i + 1]
        cutoff == call.weight_cutoff
    IN  /\ Defined(v.pa)
        /\ Defined(v.ecc)
        /\ Defined(v.w)
        /\ \/ Defined(cutoff) /\ v.w.n >= cutoff.n
           \/ ~Defined(cutoff) /\ v.w.n # 0

Elements(seq) == {seq[k] : k \in 1..Len(seq)}

C5_EmptyBuildReturnsAndCompiles ==
    (Done("filter") /\ ra.filtered = <<>>) =>
        /\ ra.pc # "raised"
        /\ ra.pc = "returned" => /\ ra.idcs = <<>>
                                 /\ ra.ancs = <<>>
                                 /\ ra.wgts = <<>>
                                 /\ fc.pc # "raised"

\* the number of anchors of the entries of data before the d-th
AnchorsBefore(d) == SumSeq([e \in 1..(d - 1) |-> Len(ra.data[e].anchs)])

ClipTo(x, lo, hi) == IF x < lo THEN lo ELSE IF x > hi THEN hi ELSE x

\* the least distance from the k-th surviving anchor of a vertex to the others
LeastDistance(anchs, k) ==
    LET ds == {Norm(anchs[k], anchs[j]) : j \in (1..Len(anchs)) \ {k}}
    IN  CHOOSE x \in ds : \A y \in ds : x <= y

ThreeElementSigma == call.sigma.form = "list" /\ Len(call.sigma.v) = 3

\* C6: with a sigma of (min, fraction, max), each anchor of a vertex with two or
\* more surviving anchors gets clip(fraction x its least distance to the other
\* surviving anchors of that vertex, min, max), the anchor of a vertex with one
\* surviving anchor gets max, and every sigma lies between min and max.
C6_SigmaFromLeastDistance ==
    (ra.pc = "returned" /\ ThreeElementSigma) =>
        LET lo == call.sigma.v[1]
            fraction == call.sigma.v[2]
            hi == call.sigma.v[3]
        IN  /\ ra.sigs.t = "arr"
            /\ \A d \in 1..Len(ra.data) :
                  LET anchs == ra.data[d].anchs IN
                  \A k \in 1..Len(anchs) :
                     ra.sigs.a[AnchorsBefore(d) + k] =
                        IF Len(anchs) >= 2
                        THEN ClipTo((fraction * LeastDistance(anchs, k)) \div 100, lo, hi)
                        ELSE hi
            /\ \A i \in 1..Len(ra.sigs.a) : lo <= ra.sigs.a[i] /\ ra.sigs.a[i] <= hi

\* one vertex keeps a single anchor and gets max; the other keeps two anchors
\* 0.2 apart and, with (0.05, 0.5, 2.0), each gets 0.1
C6_Witness ==
    /\ ra.pc = "returned"
    /\ call.sigma = SigmaList(<<5, 50, 200>>)
    /\ Len(ra.data) = 2
    /\ ra.data[1].anchs = <<P1>>
    /\ ra.data[2].anchs = <<P1, P2>>
    /\ Norm(P1, P2) = 20
    /\ ra.sigs.a = <<200, 10, 10>>

\* the anchors the call has kept for vertex i
AnchorsKept(i) ==
    UNION {Elements(ra.data[d].anchs) : d \in {d \in 1..Len(ra.data) : ra.data[d].iii[1] = i}}

\* the threshold the 'close' policy of the call stands for
CloseThreshold ==
    IF call.select.form = "list2" /\ call.select.second = "num"
    THEN call.select.x
    ELSE ((10 + 30) \div 2) * 20

ClosePolicy ==
    \/ call.select.form \in {"str", "list1"}
    \/ call.select.form = "list2"

\* C7: under the 'close' policy a candidate point of a vertex is kept if and
\* only if its Euclidean distance from the position of the vertex is strictly
\* below the threshold: the distance given, or 20 times the mean edge length of
\* the mesh; with 5.0 given, a candidate at 4.9 is kept and one at 5.1 is not.
C7_CloseKeepsStrictlyBelow ==
    (Done("organize") /\ ClosePolicy) =>
        \A k \in 1..Len(ra.filtered) :
           LET i == ra.filtered[k]
               r0 == ra.res[k]
           IN  r0[1].k # "none" =>
                  \A c \in 1..Len(r0) :
                     r0[c].k = "pt" =>
                        (r0[c] \in AnchorsKept(i) <=>
                            Norm(mesh.X[i + 1], r0[c]) < CloseThreshold)

C7_Witness ==
    /\ Done("organize")
    /\ call.select = SelectDistance(500)
    /\ Len(ra.filtered) >= 1
    /\ ra.filtered[1] = 0
    /\ ra.res[1] = <<P1, P2>>
    /\ Norm(mesh.X[1], P1) = 490
    /\ Norm(mesh.X[1], P2) = 510
    /\ AnchorsKept(0) = {P1}

\* the fields of the descriptor returned: ['anchor', shape, idcs, ancs, 'scale',
\* wgts] and, when sigma is not None, 'sigma' and its value
ReturnedIdcs == ra.result.items[3].a
ReturnedAncs == ra.result.items[4].p
ReturnedWgts == ra.result.items[6].a
SigmaPresent == Len(ra.result.items) >= 8 /\ ra.result.items[7] = Str(s_sigma)
ReturnedSigma == ra.result.items[8]

\* C8 as stated: in every descriptor returned, the index, target-point and
\* weight arrays and, whenever a sigma is present, the sigma array have the same
\* length, for a single-number sigma as for a 3-element one.
C8_FourArraysOfOneLength ==
    ra.pc = "returned" =>
        /\ Len(ReturnedAncs) = Len(ReturnedIdcs)
        /\ Len(ReturnedWgts) = Len(ReturnedIdcs)
        /\ SigmaPresent => /\ ReturnedSigma.t = "arr"
                           /\ Len(ReturnedSigma.a) = Len(ReturnedIdcs)

\* C8: in every descriptor returned, the index, target-point and weight arrays
\* have the same length, one entry per surviving anchor; a 3-element sigma
\* gives a sigma array of that length, and a single-number sigma is passed on
\* as that number.
C8_ArraysOfOneLengthSigmaByForm ==
    ra.pc = "returned" =>
        /\ Len(ReturnedIdcs) = SumSeq([d \in 1..Len(ra.data) |-> Len(ra.data[d].anchs)])
        /\ Len(ReturnedAncs) = Len(ReturnedIdcs)
        /\ Len(ReturnedWgts) = Len(ReturnedIdcs)
        /\ SigmaPresent <=> call.sigma.form # "none"
        /\ ThreeElementSigma => /\ ReturnedSigma.t = "arr"
                                /\ Len(ReturnedSigma.a) = Len(ReturnedIdcs)
        /\ call.sigma.form = "num" => ReturnedSigma = Num(call.sigma.v[1])

\* a vertex with three anchors and one with two: five entries in each array
C8_Witness ==
    /\ ra.pc = "returned"
    /\ ThreeElementSigma
    /\ Len(ra.data) = 2
    /\ Len(ra.data[1].anchs) = 3
    /\ Len(ra.data[2].anchs) = 2
    /\ ReturnedIdcs = <<0, 0, 0, 1, 1>>
    /\ Len(ReturnedSigma.a) = 5

\* the model has no valid mapping for the k-th retained vertex: an empty
\* candidate list, or one marked invalid
NoValidMapping(k) == ra.res[k] = <<>> \/ ra.res[k][1].k = "none"

\* the anchors that the candidates r0 of vertex i give under the call's policy
ExpectedAnchors(i, r0) ==
    IF call.select.form = "none" THEN Elements(r0)
    ELSE IF call.select.form = "func" THEN {}
    ELSE {a \in Elements(r0) : a.k = "pt" /\ Norm(mesh.X[i + 1], a) < CloseThreshold}

\* C9: a retained vertex for which the model has no valid mapping, or for
\* which the selection function keeps nothing, is dropped without an error:
\* it has no entry in the anchors, and the anchors of the other vertices are
\* what they would be without it.
C9_UnmappedVertexDroppedSilently ==
    Done("query") =>
        /\ ~(ra.pc = "raised" /\ ra.at = "organize")
        /\ Done("organize") =>
              \A k \in 1..Len(ra.filtered) :
                 AnchorsKept(ra.filtered[k]) =
                    IF NoValidMapping(k) THEN {}
                    ELSE ExpectedAnchors(ra.filtered[k], ra.res[k])

\* C10: polar_angle, eccentricity and weight are accepted as a per-vertex
\* sequence, as the name of a mesh property, or omitted; on a mesh that has the
\* properties each form resolves to the per-vertex values of the mesh, and
\* these are what the filter and the model query use.
C10_EveryFormResolves ==
    mesh.hasdata =>
        /\ ~(ra.pc = "raised" /\ ra.at \in {"resolve", "query"})
        /\ Done("resolve") =>
              /\ \A i \in 1..mesh.n :
                    /\ ra.polar_angle.v[i] = mesh.data[i].pa
                    /\ ra.eccentricity.v[i] = mesh.data[i].ecc
              /\ call.forms.w \notin {"one"} =>
                    \A i \in 1..mesh.n : ra.weight.v[i] = mesh.data[i].w

C15_LookupOfAbsentNameFails ==
    (topo.op.kind = "getitem" /\ ~HasKey(topo.op.before, topo.op.name)) =>
        /\ topo.op.pc = "raised"
        /\ topo.op.err = "KeyError"
        /\ topo.op.result = <<>>
        /\ topo.self = topo.op.before

C15_Witness ==
    /\ topo.op.kind = "getitem"
    /\ topo.op.name = "retinotopy"
    /\ Keys(topo.op.before) = <<"fsaverage_sym", "fsaverage">>
    /\ topo.op.pc = "raised"
    /\ topo.op.err = "KeyError"
    /\ topo.self = topo.op.before

\* the names, in the order of the target's own registrations, that the source
\* topology has too
SharedNames == SelectSeq(Keys(topo.self), LAMBDA k : HasKey(topo.from, k))

\* C16: interpolate uses the first name, in the order of the target's
\* registrations, that is also a registration of the source; it fails with the
\* incompatible-topology error (RuntimeError) exactly when the two share no
\* name, and a failing call makes no engine interpolation call.
C16_FirstSharedNameUsed ==
    topo.op.kind = "interpolate" =>
        /\ SharedNames = <<>> <=> (topo.op.pc = "raised" /\ topo.op.err = "RuntimeError")
        /\ SharedNames # <<>> => topo.op.key = SharedNames[1]
        /\ topo.op.pc = "raised" => topo.op.calls = 0

\* C17: between topologies that share a registration, interpolate returns for
\* each vertex the interpolated source value where the source value is defined
\* and the fill value where it is not; with fill -1 an undefined vertex gives -1.
C17_FillWhereUndefined ==
    (topo.op.kind = "interpolate" /\ SharedNames # <<>>) =>
        /\ topo.op.pc = "returned"
        /\ Len(topo.op.result) = Len(topo.op.data)
        /\ \A i \in 1..Len(topo.op.data) :
              topo.op.result[i] =
                  IF topo.op.data[i].t # "none"
                  THEN Num(InterpolateBytes(topo.from, topo.self, 200,
                                            [j \in 1..Len(topo.op.data) |->
                                                topo.op.data[j].n])[i])
                  ELSE topo.op.fill

(***************************************************************************)
(* The model cache.                                                        *)
(***************************************************************************)
\* C18: once a name is in the cache, every call of V123_model with that name
\* returns the cached model object and reads no file; no call replaces or
\* removes an entry of the cache; a call that fails adds no entry, and a first
\* successful call adds the new model under its name only.
C18_CachedModelReused ==
    cache.op.kind = "V123_model" =>
        LET name == cache.op.name
            before == cache.op.before
        IN  /\ \A n \in ModelNames : before[n] # 0 => cache.loaded[n] = before[n]
            /\ \A n \in ModelNames \ {name} : cache.loaded[n] = before[n]
            /\ before[name] # 0 => /\ cache.op.pc = "returned"
                                   /\ cache.op.result = <<before[name]>>
                                   /\ cache.op.calls = 0
            /\ cache.op.pc = "raised" => cache.loaded = before
            /\ (cache.op.pc = "returned" /\ before[name] = 0) =>
                  /\ cache.op.result[1] # 0
                  /\ cache.op.result[1] \notin {before[n] : n \in ModelNames}
                  /\ cache.loaded[name] = cache.op.result[1]

\* 'standard' was loaded, its files were then removed, and a later call still
\* returns the same model without a read
C18_Witness ==
    /\ cache.op.kind = "V123_model"
    /\ cache.op.name = "standard"
    /\ cache.op.before["standard"] = 1
    /\ cache.files["standard"] = [plain |-> NoFile, gz |-> NoFile]
    /\ cache.op.pc = "returned"
    /\ cache.op.result = <<1>>
    /\ cache.op.calls = 0

(***************************************************************************)
(* mesh_register.                                                          *)
(***************************************************************************)
IsNumber(v) == v.t \in {"int", "float"}

\* some argument of the call is not what mesh_register requires
ArgumentsInvalid ==
    \/ ~mr.mesh
    \/ ~(mr.max_steps.t = "int" /\ mr.max_steps.n >= 100)
    \/ ~(IsNumber(mr.max_step_size) /\ mr.max_step_size.n > 0)
    \/ ~(IsNumber(mr.max_pe_change) /\ mr.max_pe_change.n > 0 /\ mr.max_pe_change.n <= 100)
    \/ ~(mr.k.t = "int" /\ mr.k.n >= 100)

\* C19: when mesh is no cortical mesh, max_steps no positive integer,
\* max_step_size no positive number, max_pe_change no number in (0, 1] or k no
\* positive integer, the call raises in its validation, and neither the field
\* compiler nor the minimizer has been invoked.
C19_ValidatedBeforeEngine ==
    (mr.pc \notin {"idle", "validate"} /\ ArgumentsInvalid) =>
        /\ mr.pc = "raised"
        /\ mr.at = "validate"
        /\ fc.pc = "idle"
        /\ mr.minimizer = 0

(***************************************************************************)
(* The flattening of the anchors.                                          *)
(***************************************************************************)
\* how often x occurs in seq
Occurrences(seq, x) == Cardinality({k \in 1..Len(seq) : seq[k] = x})

\* the candidates that survived the selection for vertex i, as a sequence
SurvivingCandidates(i) ==
    IF \E d \in 1..Len(ra.data) : ra.data[d].iii[1] = i
    THEN ra.data[CHOOSE d \in 1..Len(ra.data) : ra.data[d].iii[1] = i].anchs
    ELSE <<>>

\* the candidates the model gave for vertex i
CandidatesOf(i) ==
    UNION {Elements(ra.res[k]) : k \in {k \in 1..Len(ra.filtered) : ra.filtered[k] = i}}

\* the weight the caller gave for vertex i times the scale of the call
WeightTimesScale(i) ==
    IF Defined(call.scale)
    THEN (mesh.data[i + 1].w.n * call.scale.n) \div 100
    ELSE mesh.data[i + 1].w.n

\* C20: in the descriptor returned, the index of a vertex appears once for each
\* of its surviving candidates, the target point at position j is a surviving
\* candidate of the vertex whose index is at position j, and the weight at
\* position j is the weight of that vertex times the scale (None being 1).
C20_FlattenedInParallel ==
    ra.pc = "returned" =>
        /\ \A i \in 0..(mesh.n - 1) :
              Occurrences(ReturnedIdcs, i) = Len(SurvivingCandidates(i))
        /\ Len(ReturnedAncs) = Len(ReturnedIdcs)
        /\ Len(ReturnedWgts) = Len(ReturnedIdcs)
        /\ \A j \in 1..Len(ReturnedIdcs) :
              LET i == ReturnedIdcs[j]
              IN  /\ i \in 0..(mesh.n - 1)
                  /\ ReturnedAncs[j] \in Elements(SurvivingCandidates(i))
                  /\ ReturnedAncs[j] \in CandidatesOf(i)
                  /\ ReturnedWgts[j] = WeightTimesScale(i)

C20_Witness ==
    /\ ra.pc = "returned"
    /\ call.scale = Num(200)
    /\ Len(ReturnedIdcs) >= 3
    /\ ReturnedIdcs[1] = ReturnedIdcs[2]
    /\ ReturnedIdcs[3] # ReturnedIdcs[1]
    /\ ReturnedAncs[1] # ReturnedAncs[2]
    /\ ReturnedWgts[1] = 2 * mesh.data[ReturnedIdcs[1] + 1].w.n
    /\ ReturnedWgts[1] > 0

(***************************************************************************)
(* The registration of a hemisphere.                                       *)
(***************************************************************************)
\* register_retinotopy_prepare_hemisphere has harmonized the properties
Harmonized ==
    rr.entry = "prepare" /\ rr.pc \in {"interpolate", "project", "returned"}

\* the call has a source of weights: a list, or a property that is found
WeightSourceExists ==
    \/ rr.forms.w = "list"
    \/ rr.forms.w \in {"name", "omitted"} /\ "w" \in rr.hemi.found

\* the weight given for vertex i is missing although weights are given
WeightMissing(i) == WeightSourceExists /\ ~Defined(mesh.data[i].w)

\* C12: after the harmonization every vertex has one entry in each of the
\* three arrays; a vertex whose polar angle, eccentricity or weight is missing
\* has weight 0, a missing polar angle is 0 and a missing eccentricity is 0; a
\* vertex with all three defined keeps its three values; and with no source of
\* weights at all a vertex with polar angle and eccentricity has weight 1.
C12_HarmonizedPerVertex ==
    Harmonized =>
        /\ Len(rr.ang) = mesh.n
        /\ Len(rr.ecc) = mesh.n
        /\ Len(rr.wgt) = mesh.n
        /\ \A i \in 1..mesh.n :
              LET v == mesh.data[i] IN
              /\ (~Defined(v.pa) \/ ~Defined(v.ecc) \/ WeightMissing(i)) => rr.wgt[i] = 0
              /\ ~Defined(v.pa) => rr.ang[i] = 0
              /\ ~Defined(v.ecc) => rr.ecc[i] = 0
              /\ Defined(v.pa) => rr.ang[i] = v.pa.n
              /\ Defined(v.ecc) => rr.ecc[i] = v.ecc.n
              /\ (Defined(v.pa) /\ Defined(v.ecc) /\ Defined(v.w) /\ WeightSourceExists)
                    => rr.wgt[i] = v.w.n
              /\ (Defined(v.pa) /\ Defined(v.ecc) /\ ~WeightSourceExists)
                    => rr.wgt[i] = 100

C12_Witness ==
    /\ Harmonized
    /\ WeightSourceExists
    /\ mesh.data[1] = [pa |-> Num(9000), ecc |-> None, w |-> Num(10)]
    /\ mesh.data[2] = [pa |-> Num(9000), ecc |-> Num(200), w |-> Num(10)]
    /\ rr.ang[1] = 9000 /\ rr.ecc[1] = 0 /\ rr.wgt[1] = 0
    /\ rr.ang[2] = 9000 /\ rr.ecc[2] = 200 /\ rr.wgt[2] = 10

\* the stages of a registration, in their order
Stages ==
    <<"RAW_PROPERTIES", "TEMPLATE_INTERPOLATED", "FLAT_PROJECTED", "OPTIMIZED",
      "BACK_PROJECTED", "REGISTERED">>

\* the call has a source for field f: a list, or a property that is found
SourceExists(f) ==
    \/ rr.forms[f] = "list"
    \/ rr.forms[f] \in {"name", "omitted"} /\ f \in rr.hemi.found

\* a call of register_retinotopy on a hemisphere with polar angle and
\* eccentricity data has ended
RegisterEnded ==
    /\ rr.entry = "register"
    /\ rr.pc \in {"returned", "raised"}
    /\ SourceExists("pa")
    /\ SourceExists("ecc")

\* C11: a run of register_retinotopy passes the stages RAW_PROPERTIES,
\* TEMPLATE_INTERPOLATED, FLAT_PROJECTED, OPTIMIZED, BACK_PROJECTED and
\* REGISTERED in this order, each once and none skipped; the minimizer is
\* invoked exactly once, after the flat projection; and a registration is
\* stored on the topology only after the back-projection.
C11_StagesInOrderEachOnce ==
    /\ rr.entry = "register" =>
          /\ \E k \in 0..Len(Stages) : rr.stages = SubSeq(Stages, 1, k)
          /\ rr.minimizer > 0 => "FLAT_PROJECTED" \in Elements(rr.stages)
          /\ topo.self # rr.before => "BACK_PROJECTED" \in Elements(rr.stages)
    /\ RegisterEnded =>
          /\ rr.pc = "returned"
          /\ rr.stages = Stages
          /\ rr.minimizer = 1

\* the registration stored under the name k, or none
Stored(registrations, k) ==
    IF HasKey(registrations, k) THEN <<registrations[KeyIndex(registrations, k)].val>>
    ELSE <<>>

\* C13: a run of register_retinotopy with registration_name None leaves the
\* registrations of the topology as they were; with a name, it leaves that
\* name holding the registered coordinates and every other name as it was.
C13_OnlyNamedRegistrationWritten ==
    RegisterEnded =>
        IF rr.registration_name = ""
        THEN topo.self = rr.before
        ELSE /\ Stored(topo.self, rr.registration_name)
                   = <<RegisterBytes(SerializeNumpy(RegisteredCoordinates, "d"))>>
             /\ \A k \in RegistrationNames \ {rr.registration_name} :
                   Stored(topo.self, k) = Stored(rr.before, k)

\* C21: a call of register_retinotopy on a hemisphere with polar angle and
\* eccentricity data, all collaborators returning normally, ends by returning
\* the subject's map with the stage REGISTERED reached, and never raises for a
\* name that no earlier statement has bound.
C21_RegistrationCompletes ==
    /\ rr.entry = "register" => rr.err # "NameError"
    /\ RegisterEnded =>
          /\ rr.pc = "returned"
          /\ rr.err = ""
          /\ "REGISTERED" \in Elements(rr.stages)

(***************************************************************************)
(* The name scan of the default resolution.                                *)
(***************************************************************************)
\* the argument is one (edge, harmonic, ...) descriptor: both parameters of
\* its schema, scale and order, are looked up by name
EdgeHarmonicGiven ==
    /\ arg.islist
    /\ Len(arg.items) = 1
    /\ arg.items[1].kind = "list"
    /\ Len(arg.items[1].items) >= 2
    /\ SubSeq(arg.items[1].items, 1, 2) = <<Str(s_edge), Str(s_harmonic)>>

\* the positions of the remaining arguments that name the parameter
ScanHits(rest, name) == {i \in 1..Len(rest) : NamesParameter(rest[i], name)}

\* C22: the scan takes the value that follows the first argument naming the
\* parameter, whatever later arguments name it again, and never reads past
\* the end of the arguments: a name given last, without a value, causes no
\* out-of-range access.
C22_ScanFirstMatchInRange ==
    (EdgeHarmonicGiven /\ fc.pc \in {"done", "raised"}) =>
        LET rest == RemainingArguments(arg.items[1], TRUE) IN
        /\ fc.err # "IndexError"
        /\ fc.pc = "done" =>
              \A k \in 1..2 :
                 LET hits == ScanHits(rest, IF k = 1 THEN s_scale ELSE s_order) IN
                 (hits # {} /\ Min(hits) < Len(rest)) =>
                    fc.terms[1].args[k] = PassedToEngine(rest[Min(hits) + 1])

====
